---- MODULE Spec2Model ----
(***************************************************************************)
(* Textinator: the detection-and-dispatch pipeline of src/src/textinator.py *)
(* together with the pasteboard wrapper of src/src/pasteboard.py.          *)
(*                                                                         *)
(* The application is one event loop.  A handler (a Spotlight query        *)
(* notification, a timer tick, a menu command, a Services call) runs to    *)
(* completion; the only place where it waits is the modal confirmation     *)
(* alert.  Other processes write to the system pasteboard at any time.     *)
(* A text is a sequence of tokens; the token NL is the newline character.  *)
(***************************************************************************)
EXTENDS Integers, Sequences, FiniteSets, TLC

\* ------------------------------------------------------------------ bounds
\* raw paths Spotlight can report (kMDItemPath values)
MaxRawPaths == 3
\* fragments returned by one recognition call
MaxFragments == 2
\* QR payloads returned by one QR detection
MaxQRCodes == 2
\* tokens of a text that is put on the pasteboard
MaxClipLen == 3
\* value of NSPasteboard.changeCount up to which writes are explored
MaxChangeCount == 2
\* largest orientation handed to detect_text_in_ciimage
MaxOrientation == 9

\* --------------------------------------------------------------- constants
CONFIDENCE == [LOW |-> 30, MEDIUM |-> 50, HIGH |-> 80]
CONFIDENCE_DEFAULT == "LOW"
LANGUAGE_DEFAULT == "en-US"
LANGUAGE_ENGLISH == "en-US"

NL == "\n"
SP == " "

\* ------------------------------------------------------------------- state
VARIABLES
    menu,                  \* state of every checkable rumps.MenuItem
    recognition_language,  \* Textinator.recognition_language
    _paused,               \* Textinator._paused
    _screenshots,          \* Textinator._screenshots: identity -> value
    query,                 \* phase of the NSMetadataQuery that start_query started
    pb,                    \* the system pasteboard (NSPasteboard.generalPasteboard)
    _change_count,         \* Pasteboard._change_count of the application
    pc,                    \* position of the application: init, crashed (during
                           \* __init__), then of the event loop: idle, loop, alert
    handler,               \* the handler that is running
    todo,                  \* items the running handler has still to visit
    cur,                   \* the event a pending confirmation alert belongs to
    config,                \* Textinator.config, the dict save_config writes
    ev,                    \* what the last step did (observable effects)
    recognized,            \* identities process_screenshot has had recognized so far
    batch,                 \* identities process_screenshot has registered with a
                           \* text in the notification it handles or just handled
    frame,                 \* the local variables of a call of process_image that
                           \* is followed statement by statement
    plist,                 \* the file Textinator.plist in Application Support
    call,                  \* a call of detect_text_in_ciimage: its arguments and
                           \* how far it has come
    login_items            \* whether APP_NAME is among the login items that
                           \* System Events keeps

vars == <<menu, recognition_language, _paused, config, _screenshots, query, pb,
          _change_count,
          pc, handler, todo, cur, ev, recognized, batch, frame, plist, call,
          login_items>>

settingsVars == <<menu, recognition_language, _paused>>
loopVars == <<pc, handler, todo, cur>>

\* ------------------------------------------------------------------ values
RawPaths == 1..MaxRawPaths

\* stringByResolvingSymlinksInPath: raw paths 2k-1 and 2k name the same file
stringByResolvingSymlinksInPath(raw) == (raw + 1) \div 2

Identities == {stringByResolvingSymlinksInPath(r) : r \in RawPaths}

\* a Python value kept in _screenshots: the bool True or a str
PyTrue == [tag |-> "bool", s |-> <<>>]
PyStr(s) == [tag |-> "str", s |-> s]
SKIPPED == PyStr(<<"__SKIPPED__">>)

Languages == {LANGUAGE_ENGLISH, "fr-FR"}
FragTexts == {<<"a">>}
Confs == {CONFIDENCE.LOW - 1, CONFIDENCE.HIGH}
Fragment == [text : FragTexts, conf : Confs]
QRPayloads == {<<"q">>}
ExternalTexts == {<<"x">>}

SeqsUpTo(S, n) == UNION {[1..k -> S] : k \in 0..n}

\* the result lists a notification carries: distinct raw paths in the order
\* in which Spotlight found them (raw paths are numbered in that order)
ResultLists == {r \in SeqsUpTo(RawPaths, MaxRawPaths) :
                    \A i, j \in DOMAIN r : i < j => r[i] < r[j]}

\* what the Vision request and the QR detector return for one image
RecognitionOutcomes ==
    [error : {TRUE}, frags : {<<>>}, qrs : {<<>>}]
    \cup [error : {FALSE}, frags : SeqsUpTo(Fragment, MaxFragments),
          qrs : SeqsUpTo(QRPayloads, MaxQRCodes)]

NoEvent == [op |-> "none", src |-> "none", id |-> 0, loaded |-> FALSE, recognized |-> FALSE,
            raised |-> FALSE, read |-> FALSE, asked |-> FALSE, wrote |-> FALSE,
            notified |-> "none", saved |-> FALSE, returned |-> FALSE]

NoCur == [src |-> "none", id |-> 0, text |-> <<>>, clipboard_text |-> <<>>]

\* no call of process_image is followed statement by statement
NoFrame == [at |-> "none", languages |-> <<>>, detected_text |-> <<>>,
            detected_qrcodes |-> <<>>, text |-> <<>>, clipboard_text |-> <<>>]

\* a call of process_image has been entered
NewFrame == [NoFrame EXCEPT !.at = "entered"]

\* an optional argument that is left at None
None == [given |-> FALSE, halves |-> 0, list |-> <<>>]

\* the orientations a caller can hand to detect_text_in_ciimage: None, or a
\* number, counted in halves so that 2.5 is a value next to 2 and 3
OrientationArgs ==
    {None} \cup {[None EXCEPT !.given = TRUE, !.halves = h] :
                    h \in 0..(2 * MaxOrientation)}

\* the language lists a caller can hand to it: None, or a list
LanguageArgs ==
    {None} \cup {[None EXCEPT !.given = TRUE, !.list = l] :
                    l \in SeqsUpTo(Languages, 2)}

\* no call of detect_text_in_ciimage is followed
NoCall == [at |-> "none", orientation |-> None, languages |-> None,
           recognition_languages |-> <<>>, performed |-> FALSE,
           error |-> "none", results |-> <<>>]

\* the calls of detect_text_in_ciimage (and detect_text_in_file) at entry
GatewayCalls ==
    {[NoCall EXCEPT !.at = "entered", !.orientation = o, !.languages = l] :
        o \in OrientationArgs, l \in LanguageArgs}

\* the results detect_text_in_ciimage can return to a call that is followed
\* statement by statement: two texts, confidences at and next to the
\* thresholds
PolicyFragTexts == {<<"a">>, <<"b">>}
PolicyConfs == {CONFIDENCE.LOW - 1, CONFIDENCE.LOW, CONFIDENCE.MEDIUM,
                CONFIDENCE.HIGH}
PolicyFragment == [text : PolicyFragTexts, conf : PolicyConfs]
PolicyFrags == SeqsUpTo(PolicyFragment, MaxFragments)

\* the payload lists detect_qrcodes_in_ciimage can return to such a call
PolicyQRPayloads == {<<"q">>, <<"r">>}
PolicyQRCodes == SeqsUpTo(PolicyQRPayloads, MaxQRCodes)

\* what the pasteboard can hold when such a call is entered: nothing, a string
\* of length zero, a text of one line, a text of two lines
PolicyPasteboards ==
    {[string |-> <<>>, has_string |-> FALSE, has_image |-> FALSE,
      changeCount |-> 0],
     [string |-> <<>>, has_string |-> TRUE, has_image |-> FALSE,
      changeCount |-> 0],
     [string |-> <<"x">>, has_string |-> TRUE, has_image |-> FALSE,
      changeCount |-> 0],
     [string |-> <<"x", NL, "y">>, has_string |-> TRUE, has_image |-> FALSE,
      changeCount |-> 0]}

\* ------------------------------------------------------------- pasteboard
\* NSPasteboard.clearContents followed by setString:forType:
OSSetString(p, text) ==
    [string |-> text, has_string |-> TRUE, has_image |-> FALSE,
     changeCount |-> p.changeCount + 1]

OSClearContents_KeepsString(p) == [p EXCEPT !.changeCount = p.changeCount + 1]

\* NSPasteboard.clearContents
OSClearContents(p) ==
    [string |-> <<>>, has_string |-> FALSE, has_image |-> FALSE,
     changeCount |-> p.changeCount + 1]

ChangeCountAfterWrite_OwnWriteOnly(p, change_count) == change_count + 1

ChangeCountAfterWrite_Stale(p, change_count) == change_count

\* set_text and clear end with
\* self._change_count = self.pasteboard.changeCount(); p is the pasteboard
\* after the write
ChangeCountAfterWrite(p, change_count) == p.changeCount

\* Pasteboard.has_text
has_text(p) == p.has_string

\* Pasteboard.get_text / paste: stringForType_ or ""
get_text(p) == IF p.has_string THEN p.string ELSE <<>>

\* Pasteboard.has_image
has_image(p) == p.has_image

\* ------------------------------------------------------------------ policy
\* "\n".join(parts)
RECURSIVE Join(_)
Join(parts) ==
    IF parts = <<>> THEN <<>>
    ELSE IF Len(parts) = 1 THEN parts[1]
    ELSE parts[1] \o <<NL>> \o Join(Tail(parts))

ReplaceNL_Drops(text) == SelectSeq(text, LAMBDA c : c # NL)

\* str.replace("\n", " ")
ReplaceNL(text) == [i \in DOMAIN text |-> IF text[i] = NL THEN SP ELSE text[i]]

\* Textinator.get_confidence_state
get_confidence_state(m) ==
    IF m.confidence_low THEN "LOW"
    ELSE IF m.confidence_medium THEN "MEDIUM"
    ELSE IF m.confidence_high THEN "HIGH"
    ELSE CONFIDENCE_DEFAULT

LanguageList_AlwaysEnglish(m, lang) ==
    IF m.language_english THEN <<lang, LANGUAGE_ENGLISH>> ELSE <<lang>>

\* the language list handed to detect_text_in_ciimage
LanguageList(m, lang) ==
    IF m.language_english /\ lang # LANGUAGE_ENGLISH
    THEN <<lang, LANGUAGE_ENGLISH>>
    ELSE <<lang>>

PassesThreshold_Strict(conf, confidence) == conf > confidence

\* result[1] >= confidence
PassesThreshold(conf, confidence) == conf >= confidence

FilteredText_Reversed(m, frags) ==
    LET confidence == CONFIDENCE[get_confidence_state(m)]
        kept == SelectSeq(frags, LAMBDA f : PassesThreshold(f.conf, confidence))
    IN  Join([i \in DOMAIN kept |-> kept[Len(kept) + 1 - i].text])

\* the fragments that pass the confidence threshold, joined
FilteredText(m, frags) ==
    LET confidence == CONFIDENCE[get_confidence_state(m)]
        kept == SelectSeq(frags, LAMBDA f : PassesThreshold(f.conf, confidence))
    IN  Join([i \in DOMAIN kept |-> kept[i].text])

WithQRCodes_NoSeparator(text, qrs) ==
    IF qrs # <<>> THEN text \o Join(qrs) ELSE text

\* the text with the QR payloads appended (QR detection on)
WithQRCodes(text, qrs) ==
    IF qrs # <<>>
    THEN IF text # <<>> THEN text \o <<NL>> \o Join(qrs) ELSE Join(qrs)
    ELSE text

DetectedQRCodes_Always(m, qrs) == qrs

\* which QR payloads process_image gets to see
DetectedQRCodes(m, qrs) == IF m.qrcodes THEN qrs ELSE <<>>

\* the value process_image returns
DetectedText(m, frags, qrs) ==
    LET text == WithQRCodes(FilteredText(m, frags), DetectedQRCodes(m, qrs))
    IN  IF text # <<>> /\ ~m.linebreaks THEN ReplaceNL(text) ELSE text

ClipboardText_ReplacesAll(m, p, text) ==
    LET all == IF m.append /\ get_text(p) # <<>>
               THEN get_text(p) \o <<NL>> \o text ELSE text
    IN  IF ~m.linebreaks THEN ReplaceNL(all) ELSE all

ClipboardText_NoNewline(m, p, text) ==
    IF m.append THEN get_text(p) \o text ELSE text

ClipboardText_AlwaysAppends(m, p, text) ==
    IF get_text(p) # <<>> THEN get_text(p) \o <<NL>> \o text ELSE text

\* the value process_image hands to Pasteboard.copy
ClipboardText(m, p, text) ==
    IF m.append
    THEN LET clipboard_text == IF has_text(p) THEN get_text(p) ELSE <<>>
         IN  IF clipboard_text # <<>> THEN clipboard_text \o <<NL>> \o text
             ELSE text
    ELSE text

Notification_IgnoresSetting(m, detected_text) ==
    IF detected_text # <<>> THEN "Detected text" ELSE "No text detected"

Notification_AlwaysText(m, detected_text) ==
    IF ~m.notification THEN "none" ELSE "Detected text"

\* the message of the notification a handler posts
Notification(m, detected_text) ==
    IF ~m.notification THEN "none"
    ELSE IF detected_text # <<>> THEN "Detected text" ELSE "No text detected"

RegistryValue_ClipboardText(detected_text, clipboard_text) ==
    PyStr(clipboard_text)

\* the value process_screenshot stores for a processed screenshot
RegistryValue(detected_text, clipboard_text) == PyStr(detected_text)

\* ------------------------------------------------------------ settings
\* the configuration load_config falls back to when no file exists
DefaultConfig ==
    [confidence |-> CONFIDENCE_DEFAULT, linebreaks |-> TRUE, append |-> FALSE,
     notification |-> TRUE, language |-> LANGUAGE_DEFAULT,
     always_detect_english |-> TRUE, detect_qrcodes |-> FALSE,
     start_on_login |-> FALSE, confirmation |-> FALSE,
     detect_clipboard |-> TRUE, debug |-> FALSE]

\* the keys save_config writes
ConfigKeys == DOMAIN DefaultConfig

\* Textinator.plist as plistlib.dump(self.config, f) leaves it
PlistOf(c) == [kind |-> "dict", keys |-> ConfigKeys, value |-> c]

clear_confidence_state_KeepsAll(m) == m

\* Textinator.clear_confidence_state
clear_confidence_state(m) ==
    [m EXCEPT !.confidence_low = FALSE, !.confidence_medium = FALSE,
              !.confidence_high = FALSE]

\* Textinator.set_confidence_state, for a known confidence name
set_confidence_state(m, confidence) ==
    LET c == clear_confidence_state(m)
    IN  IF confidence = "LOW" THEN [c EXCEPT !.confidence_low = TRUE]
        ELSE IF confidence = "MEDIUM" THEN [c EXCEPT !.confidence_medium = TRUE]
        ELSE [c EXCEPT !.confidence_high = TRUE]

\* the menu state load_config derives from a configuration
MenuOfConfig(c) ==
    set_confidence_state(
        [append |-> c.append, linebreaks |-> c.linebreaks,
         notification |-> c.notification,
         language_english |-> c.always_detect_english,
         detect_clipboard |-> c.detect_clipboard,
         confirmation |-> c.confirmation, qrcodes |-> c.detect_qrcodes,
         start_on_login |-> c.start_on_login,
         confidence_low |-> FALSE, confidence_medium |-> FALSE,
         confidence_high |-> FALSE],
        c.confidence)

\* the configuration save_config writes
ConfigOf(m, lang, old) ==
    [old EXCEPT !.linebreaks = m.linebreaks, !.append = m.append,
                !.notification = m.notification,
                !.confidence = get_confidence_state(m),
                !.language = lang,
                !.always_detect_english = m.language_english,
                !.detect_clipboard = m.detect_clipboard,
                !.confirmation = m.confirmation,
                !.detect_qrcodes = m.qrcodes,
                !.start_on_login = m.start_on_login]

\* every checkable menu item as rumps.MenuItem creates it: state 0
UncheckedMenu ==
    [append |-> FALSE, linebreaks |-> FALSE, notification |-> FALSE,
     language_english |-> FALSE, detect_clipboard |-> FALSE,
     confirmation |-> FALSE, qrcodes |-> FALSE, start_on_login |-> FALSE,
     confidence_low |-> FALSE, confidence_medium |-> FALSE,
     confidence_high |-> FALSE]

\* Textinator.config before load_config has assigned it
NoConfig == <<>>

\* what can be in Textinator.plist when the application starts: no file, a
\* file plistlib cannot parse (empty content included), a plist whose root
\* is no dict, a dict with some of the keys and some values
PlistFiles ==
    {[kind |-> k, keys |-> {}, value |-> DefaultConfig] :
        k \in {"missing", "malformed", "list"}}
    \cup {[kind |-> "dict", keys |-> ks,
           value |-> [DefaultConfig EXCEPT !.confidence = c, !.append = a,
                                           !.language = g]] :
            ks \in {ConfigKeys, ConfigKeys \ {"confidence"}, {}},
            c \in DOMAIN CONFIDENCE \cup {"BOGUS"},
            a \in BOOLEAN, g \in Languages}

\* the dict load_config works on, each key read with the default of its
\* self.config.get(key, default)
LoadedConfig(f, lang) ==
    IF f.kind = "dict" /\ f.keys # {}
    THEN [k \in ConfigKeys |->
            IF k \in f.keys THEN f.value[k]
            ELSE IF k = "language" THEN lang ELSE DefaultConfig[k]]
    ELSE [DefaultConfig EXCEPT !.language = lang]

\* whether load_config gets to its end: a root that is no dict has no get, and
\* set_confidence_state raises ValueError for a name it does not know
LoadCompletes(f, lang) ==
    /\ f.kind # "list"
    /\ LoadedConfig(f, lang).confidence \in DOMAIN CONFIDENCE

\* Textinator.load_config, called by __init__
load_config ==
    /\ pc = "init"
    /\ query' = query
    /\ frame' = frame
    /\ call' = call
    /\ login_items' = login_items
    /\ LET c == LoadedConfig(plist, recognition_language)
       IN  IF LoadCompletes(plist, recognition_language)
           THEN /\ menu' = MenuOfConfig(c)
                /\ recognition_language' = c.language
                /\ config' = ConfigOf(menu', c.language, c)
                /\ plist' = PlistOf(config')
                /\ pc' = "idle"
                /\ ev' = [NoEvent EXCEPT !.op = "load_config", !.saved = TRUE]
           ELSE /\ menu' = IF plist.kind = "list" THEN menu
                           ELSE [menu EXCEPT !.append = c.append,
                                             !.linebreaks = c.linebreaks,
                                             !.notification = c.notification]
                /\ config' = IF plist.kind = "list" THEN config ELSE c
                /\ pc' = "crashed"
                /\ ev' = [NoEvent EXCEPT !.op = "load_config", !.raised = TRUE]
                /\ UNCHANGED <<recognition_language, plist>>
    /\ UNCHANGED <<_paused, _screenshots, pb, _change_count, handler, todo, cur,
                   recognized, batch>>

\* the menu items wired to on_toggle
ToggleItems == {"language_english", "detect_clipboard", "qrcodes", "notification",
                "linebreaks", "append", "confirmation"}
ConfidenceItems == {"confidence_low", "confidence_medium", "confidence_high"}

\* -------------------------------------------------------------- registry
Put_Forgets(f, k, v) == [x \in {k} |-> v]

\* _screenshots[k] = v
Put(f, k, v) == [x \in DOMAIN f \cup {k} |-> IF x = k THEN v ELSE f[x]]

AlreadySeen_OnlyResults(f, id) == id \in DOMAIN f /\ f[id].tag = "str"

AlreadySeen_NotSkipped(f, id) == id \in DOMAIN f /\ f[id] # SKIPPED

\* path in self._screenshots
AlreadySeen(f, id) == id \in DOMAIN f

\* the loop of initialize_screenshots
MarkSeen(f, results) ==
    LET ids == {stringByResolvingSymlinksInPath(results[i]) : i \in DOMAIN results}
    IN  [x \in DOMAIN f \cup ids |-> IF x \in ids THEN PyTrue ELSE f[x]]

Init ==
    /\ config = DefaultConfig
    /\ menu = MenuOfConfig(DefaultConfig)
    /\ recognition_language = DefaultConfig.language
    /\ _paused = FALSE
    /\ _screenshots = <<>>
    /\ query = "started"
    /\ pb = [string |-> <<>>, has_string |-> FALSE, has_image |-> FALSE,
             changeCount |-> 0]
    /\ _change_count = 0
    /\ pc = "idle"
    /\ handler = "none"
    /\ todo = <<>>
    /\ cur = NoCur
    /\ ev = NoEvent
    /\ recognized = {}
    /\ batch = {}
    /\ frame = NoFrame
    /\ plist = PlistOf(DefaultConfig)
    /\ call = NoCall
    /\ login_items = FALSE

\* ------------------------------------------------------ position of a loop
\* the loop goes on to its next item, or the handler returns
Continue(rest) ==
    /\ pc' = IF rest = <<>> THEN "idle" ELSE "loop"
    /\ handler' = IF rest = <<>> THEN "none" ELSE handler
    /\ todo' = rest
    /\ cur' = NoCur

\* the handler ends at once (an exception, a return)
Return ==
    /\ pc' = "idle"
    /\ handler' = "none"
    /\ todo' = <<>>
    /\ cur' = NoCur

RunLoopFree_Always(p) == TRUE

\* the run loop of the application calls a handler (a notification of the
\* query, the timer, a menu command, a Services call) when no handler is
\* running and no alert is open
RunLoopFree(p) == p = "idle"

\* ---------------------------------------------------------------- pipeline
WritesRegistry_Always(src) == TRUE

\* which caller of process_image stores the result in _screenshots
WritesRegistry(src) == src = "screenshot"

\* the statements of a caller that follow its call of process_image
AfterImage(src, id, detected_text, clipboard_text, rest, e) ==
    /\ _screenshots' = IF WritesRegistry(src)
                       THEN Put(_screenshots, id,
                                RegistryValue(detected_text, clipboard_text))
                       ELSE _screenshots
    /\ batch' = IF src = "screenshot" THEN batch \cup {id} ELSE batch
    /\ ev' = [e EXCEPT !.notified = Notification(menu, detected_text),
                       !.returned = TRUE]
    /\ Continue(rest)

\* who sees an exception that process_image raises: the Services handler
\* catches it, the other two let it leave the handler
Escapes(src) == src # "service"

AsksFirst_Never(m) == FALSE

\* whether process_image asks before it copies
AsksFirst(m) == m.confirmation

\* process_image(image) and what its caller does with the result; cc is the
\* value _change_count has when process_image is entered.  The outcome o has
\* QR payloads only if detect_qrcodes_in_ciimage is called at all.
process_image(src, id, o, rest, cc) ==
    LET text == DetectedText(menu, o.frags, o.qrs)
        clipboard_text == ClipboardText(menu, pb, text)
        e == [NoEvent EXCEPT !.op = "image", !.src = src, !.id = id,
                             !.loaded = TRUE, !.recognized = TRUE]
    IN  /\ ~menu.qrcodes => o.qrs = <<>>
        /\ recognized' = IF src = "screenshot" THEN recognized \cup {id}
                         ELSE recognized
        /\ IF o.error
           THEN /\ ev' = [e EXCEPT !.raised = Escapes(src)]
                /\ Return
                /\ _change_count' = cc
                /\ UNCHANGED <<pb, _screenshots, batch>>
           ELSE IF text = <<>>
           THEN /\ AfterImage(src, id, text, text, rest, e)
                /\ _change_count' = cc
                /\ UNCHANGED pb
           ELSE /\ Len(clipboard_text) <= MaxClipLen
                /\ IF AsksFirst(menu)
                   THEN /\ pc' = "alert"
                        /\ cur' = [src |-> src, id |-> id, text |-> text,
                                   clipboard_text |-> clipboard_text]
                        /\ todo' = rest
                        /\ ev' = [e EXCEPT !.read = menu.append, !.asked = TRUE]
                        /\ _change_count' = cc
                        /\ UNCHANGED <<handler, pb, _screenshots, batch>>
                   ELSE /\ pb.changeCount < MaxChangeCount
                        /\ pb' = OSSetString(pb, clipboard_text)
                        /\ _change_count' = ChangeCountAfterWrite(pb', cc)
                        /\ AfterImage(src, id, text, clipboard_text, rest,
                                      [e EXCEPT !.read = menu.append,
                                                !.wrote = TRUE])

AnswerCopies_Always(yes) == TRUE

\* whether process_image copies after the answer rumps.alert returns
AnswerCopies(yes) == yes

CommittedOnYes_ReadsAgain(m, p, c) == ClipboardText(m, p, c.text)

\* self.pasteboard.copy(clipboard_text) after the alert: clipboard_text is the
\* local variable that was assigned before the alert was shown
CommittedOnYes(m, p, c) == c.clipboard_text

\* the user answers the alert of process_image
AlertAnswer(yes) ==
    /\ query' = query
    /\ frame' = frame
    /\ plist' = plist
    /\ call' = call
    /\ login_items' = login_items
    /\ pc = "alert"
    /\ AnswerCopies(yes) => pb.changeCount < MaxChangeCount
    /\ pb' = IF AnswerCopies(yes)
             THEN OSSetString(pb, CommittedOnYes(menu, pb, cur))
             ELSE pb
    /\ _change_count' = IF AnswerCopies(yes)
                        THEN ChangeCountAfterWrite(pb', _change_count)
                        ELSE _change_count
    /\ AfterImage(cur.src, cur.id, cur.text, cur.clipboard_text, todo,
                  [NoEvent EXCEPT !.op = IF yes THEN "yes" ELSE "no",
                                  !.src = cur.src, !.id = cur.id,
                                  !.wrote = AnswerCopies(yes)])
    /\ UNCHANGED <<settingsVars, config, recognized>>

\* ------------------------------------------------- Spotlight notifications
\* query_updated_: NSMetadataQueryDidStartGatheringNotification
QueryDidStartGathering ==
    /\ RunLoopFree(pc)
    /\ query = "started"
    /\ query' = "gathering"
    /\ frame' = frame
    /\ plist' = plist
    /\ call' = call
    /\ login_items' = login_items
    /\ batch' = {}
    /\ ev' = [NoEvent EXCEPT !.op = "started"]
    /\ UNCHANGED <<settingsVars, config, _screenshots, pb, _change_count,
                   loopVars, recognized>>

\* query_updated_: NSMetadataQueryGatheringProgressNotification
QueryGatheringProgress ==
    /\ RunLoopFree(pc)
    /\ query = "gathering"
    /\ query' = query
    /\ frame' = frame
    /\ plist' = plist
    /\ call' = call
    /\ login_items' = login_items
    /\ batch' = {}
    /\ ev' = [NoEvent EXCEPT !.op = "progress"]
    /\ UNCHANGED <<settingsVars, config, _screenshots, pb, _change_count,
                   loopVars, recognized>>

\* query_updated_: NSMetadataQueryDidFinishGatheringNotification
QueryDidFinishGathering(results) ==
    /\ RunLoopFree(pc)
    /\ query = "gathering"
    /\ query' = "live"
    /\ frame' = frame
    /\ plist' = plist
    /\ call' = call
    /\ login_items' = login_items
    /\ batch' = {}
    /\ _screenshots' = MarkSeen(_screenshots, results)
    /\ ev' = [NoEvent EXCEPT !.op = "gathered"]
    /\ UNCHANGED <<settingsVars, config, pb, _change_count, loopVars, recognized>>

\* query_updated_: NSMetadataQueryDidUpdateNotification enters process_screenshot
QueryDidUpdate(results) ==
    /\ query' = query
    /\ frame' = frame
    /\ plist' = plist
    /\ call' = call
    /\ login_items' = login_items
    /\ RunLoopFree(pc)
    /\ batch' = {}
    /\ pc' = IF results = <<>> THEN "idle" ELSE "loop"
    /\ handler' = IF results = <<>> THEN "none" ELSE "process_screenshot"
    /\ todo' = results
    /\ ev' = [NoEvent EXCEPT !.op = "update"]
    /\ UNCHANGED <<settingsVars, config, _screenshots, pb, _change_count, cur,
                   recognized>>

\* process_screenshot: the item is in the registry
ScreenshotSeen ==
    /\ query' = query
    /\ frame' = frame
    /\ plist' = plist
    /\ call' = call
    /\ login_items' = login_items
    /\ pc = "loop" /\ handler = "process_screenshot"
    /\ batch' = batch
    /\ AlreadySeen(_screenshots, stringByResolvingSymlinksInPath(Head(todo)))
    /\ ev' = [NoEvent EXCEPT !.op = "seen", !.src = "screenshot",
                             !.id = stringByResolvingSymlinksInPath(Head(todo))]
    /\ Continue(Tail(todo))
    /\ UNCHANGED <<settingsVars, config, _screenshots, pb, _change_count,
                   recognized>>

SkipsBecausePaused_Never(paused) == FALSE

\* whether process_screenshot skips a new item
SkipsBecausePaused(paused) == paused

\* process_screenshot: the item is new and the application is paused
ScreenshotSkipped ==
    /\ query' = query
    /\ frame' = frame
    /\ plist' = plist
    /\ call' = call
    /\ login_items' = login_items
    /\ pc = "loop" /\ handler = "process_screenshot"
    /\ batch' = batch
    /\ ~AlreadySeen(_screenshots, stringByResolvingSymlinksInPath(Head(todo)))
    /\ SkipsBecausePaused(_paused)
    /\ _screenshots' = Put(_screenshots,
                           stringByResolvingSymlinksInPath(Head(todo)), SKIPPED)
    /\ ev' = [NoEvent EXCEPT !.op = "skipped", !.src = "screenshot",
                             !.id = stringByResolvingSymlinksInPath(Head(todo))]
    /\ Continue(Tail(todo))
    /\ UNCHANGED <<settingsVars, config, pb, _change_count, recognized>>

RegistryAfterLoadFailure_MarksSeen(f, id) == Put(f, id, PyStr(<<>>))

\* the registry after "if screenshot_image is None: ... continue"
RegistryAfterLoadFailure(f, id) == f

\* process_screenshot: the item is new and ciimage_from_file returns None
ScreenshotLoadFailed ==
    /\ query' = query
    /\ frame' = frame
    /\ plist' = plist
    /\ call' = call
    /\ login_items' = login_items
    /\ pc = "loop" /\ handler = "process_screenshot"
    /\ batch' = batch
    /\ ~AlreadySeen(_screenshots, stringByResolvingSymlinksInPath(Head(todo)))
    /\ ~SkipsBecausePaused(_paused)
    /\ _screenshots' = RegistryAfterLoadFailure(
                           _screenshots,
                           stringByResolvingSymlinksInPath(Head(todo)))
    /\ ev' = [NoEvent EXCEPT !.op = "loadfailed", !.src = "screenshot",
                             !.id = stringByResolvingSymlinksInPath(Head(todo))]
    /\ Continue(Tail(todo))
    /\ UNCHANGED <<settingsVars, config, pb, _change_count, recognized>>

\* process_screenshot: the item is new and its image is processed
ScreenshotProcessed(o) ==
    /\ query' = query
    /\ frame' = frame
    /\ plist' = plist
    /\ call' = call
    /\ login_items' = login_items
    /\ pc = "loop" /\ handler = "process_screenshot"
    /\ ~AlreadySeen(_screenshots, stringByResolvingSymlinksInPath(Head(todo)))
    /\ ~SkipsBecausePaused(_paused)
    /\ process_image("screenshot",
                     stringByResolvingSymlinksInPath(Head(todo)), o, Tail(todo),
                     _change_count)
    /\ UNCHANGED <<settingsVars, config>>

\* ------------------------------------------------------------ menu commands
\* Textinator.on_pause
on_pause ==
    /\ query' = query
    /\ frame' = frame
    /\ plist' = plist
    /\ call' = call
    /\ login_items' = login_items
    /\ RunLoopFree(pc)
    /\ batch' = {}
    /\ _paused' = ~_paused
    /\ ev' = [NoEvent EXCEPT !.op = "menu"]
    /\ UNCHANGED <<menu, recognition_language, config, _screenshots, pb,
                   _change_count, loopVars, recognized>>

\* Textinator.on_toggle
on_toggle(sender) ==
    /\ query' = query
    /\ frame' = frame
    /\ call' = call
    /\ login_items' = login_items
    /\ RunLoopFree(pc)
    /\ batch' = {}
    /\ menu' = [menu EXCEPT ![sender] = ~menu[sender]]
    /\ config' = ConfigOf(menu', recognition_language, config)
    /\ plist' = PlistOf(config')
    /\ ev' = [NoEvent EXCEPT !.op = "menu", !.saved = TRUE]
    /\ UNCHANGED <<recognition_language, _paused, _screenshots, pb,
                   _change_count, loopVars, recognized>>

\* Textinator.on_confidence
on_confidence(sender) ==
    /\ query' = query
    /\ frame' = frame
    /\ call' = call
    /\ login_items' = login_items
    /\ RunLoopFree(pc)
    /\ batch' = {}
    /\ menu' = [clear_confidence_state(menu) EXCEPT ![sender] = TRUE]
    /\ config' = ConfigOf(menu', recognition_language, config)
    /\ plist' = PlistOf(config')
    /\ ev' = [NoEvent EXCEPT !.op = "menu", !.src = sender, !.saved = TRUE]
    /\ UNCHANGED <<recognition_language, _paused, _screenshots, pb,
                   _change_count, loopVars, recognized>>

\* Textinator.on_language
on_language(sender) ==
    /\ query' = query
    /\ frame' = frame
    /\ call' = call
    /\ login_items' = login_items
    /\ RunLoopFree(pc)
    /\ batch' = {}
    /\ recognition_language' = sender
    /\ config' = ConfigOf(menu, recognition_language', config)
    /\ plist' = PlistOf(config')
    /\ ev' = [NoEvent EXCEPT !.op = "menu", !.saved = TRUE]
    /\ UNCHANGED <<menu, _paused, _screenshots, pb, _change_count, loopVars,
                   recognized>>

\* Textinator.on_start_on_login; ok is whether the AppleScript calls of
\* loginitems.py go through (they raise when System Events refuses them)
on_start_on_login(ok) ==
    /\ query' = query
    /\ frame' = frame
    /\ call' = call
    /\ RunLoopFree(pc)
    /\ batch' = {}
    /\ menu' = [menu EXCEPT !.start_on_login = ~menu.start_on_login]
    /\ IF ok
       THEN /\ login_items' = menu'.start_on_login
            /\ config' = ConfigOf(menu', recognition_language, config)
            /\ plist' = PlistOf(config')
            /\ ev' = [NoEvent EXCEPT !.op = "menu", !.saved = TRUE]
       ELSE /\ ev' = [NoEvent EXCEPT !.op = "menu", !.raised = TRUE]
            /\ UNCHANGED <<login_items, config, plist>>
    /\ UNCHANGED <<recognition_language, _paused, _screenshots, pb,
                   _change_count, loopVars, recognized>>

\* Textinator.on_clear_clipboard: Pasteboard.clear
on_clear_clipboard ==
    /\ query' = query
    /\ frame' = frame
    /\ plist' = plist
    /\ call' = call
    /\ login_items' = login_items
    /\ RunLoopFree(pc)
    /\ batch' = {}
    /\ pb.changeCount < MaxChangeCount
    /\ pb' = OSClearContents(pb)
    /\ _change_count' = ChangeCountAfterWrite(pb', _change_count)
    /\ ev' = [NoEvent EXCEPT !.op = "clear"]
    /\ UNCHANGED <<settingsVars, config, _screenshots, loopVars, recognized>>

\* --------------------------------------------------------- other processes
\* another process puts a text on the pasteboard
ExternalSetText(text) ==
    /\ query' = query
    /\ frame' = frame
    /\ plist' = plist
    /\ call' = call
    /\ login_items' = login_items
    /\ pb.changeCount < MaxChangeCount
    /\ batch' = IF pc = "idle" THEN {} ELSE batch
    /\ pb' = OSSetString(pb, text)
    /\ ev' = [NoEvent EXCEPT !.op = "external"]
    /\ UNCHANGED <<settingsVars, config, _screenshots, _change_count, loopVars,
                   recognized>>

\* another process puts an image on the pasteboard
ExternalSetImage ==
    /\ query' = query
    /\ frame' = frame
    /\ plist' = plist
    /\ call' = call
    /\ login_items' = login_items
    /\ pb.changeCount < MaxChangeCount
    /\ batch' = IF pc = "idle" THEN {} ELSE batch
    /\ pb' = [string |-> <<>>, has_string |-> FALSE, has_image |-> TRUE,
              changeCount |-> pb.changeCount + 1]
    /\ ev' = [NoEvent EXCEPT !.op = "external"]
    /\ UNCHANGED <<settingsVars, config, _screenshots, _change_count, loopVars,
                   recognized>>

\* another process puts a text and an image on the pasteboard together
\* (Pasteboard.set_text_and_image of that process)
ExternalSetTextAndImage(text) ==
    /\ query' = query
    /\ frame' = frame
    /\ plist' = plist
    /\ call' = call
    /\ login_items' = login_items
    /\ pb.changeCount < MaxChangeCount
    /\ batch' = IF pc = "idle" THEN {} ELSE batch
    /\ pb' = [string |-> text, has_string |-> TRUE, has_image |-> TRUE,
              changeCount |-> pb.changeCount + 1]
    /\ ev' = [NoEvent EXCEPT !.op = "external"]
    /\ UNCHANGED <<settingsVars, config, _screenshots, _change_count, loopVars,
                   recognized>>

\* --------------------------------------------------------- clipboard watcher
has_changed_Always(p, change_count) == TRUE

has_changed_Never(p, change_count) == FALSE

\* Pasteboard.has_changed: the value it returns
has_changed(p, change_count) == p.changeCount # change_count

RecordedAfterCheck_Keeps(p, change_count) == change_count

\* Pasteboard.has_changed: the count it leaves in _change_count
RecordedAfterCheck(p, change_count) ==
    IF p.changeCount # change_count THEN p.changeCount ELSE change_count

WatchesClipboard_Always(m) == TRUE

\* clipboard_watcher: whether it goes past "if not self.detect_clipboard.state"
WatchesClipboard(m) == m.detect_clipboard

RecordedWhenOff_Records(p, change_count) == p.changeCount

\* clipboard_watcher returns at "if not self.detect_clipboard.state" before
\* it has called has_changed: the count that stays in _change_count
RecordedWhenOff(p, change_count) == change_count

SkipsClipboardBecausePaused_Never(paused) == FALSE

\* clipboard_watcher: whether it returns at "if self._paused" with a new image
SkipsClipboardBecausePaused(paused) == paused

\* clipboard_watcher: "Detect text in images on clipboard" is not checked
ClipboardTickOff ==
    /\ query' = query
    /\ frame' = frame
    /\ plist' = plist
    /\ call' = call
    /\ login_items' = login_items
    /\ RunLoopFree(pc)
    /\ batch' = {}
    /\ ~WatchesClipboard(menu)
    /\ _change_count' = RecordedWhenOff(pb, _change_count)
    /\ ev' = [NoEvent EXCEPT !.op = "tick"]
    /\ UNCHANGED <<settingsVars, config, _screenshots, pb, loopVars, recognized>>

\* clipboard_watcher: nothing new, no image, or a new image while paused (the
\* one case in which it logs "new image on clipboard" and returns)
ClipboardTickSkip ==
    /\ query' = query
    /\ frame' = frame
    /\ plist' = plist
    /\ call' = call
    /\ login_items' = login_items
    /\ RunLoopFree(pc)
    /\ batch' = {}
    /\ WatchesClipboard(menu)
    /\ ~(/\ has_changed(pb, _change_count) /\ has_image(pb)
         /\ ~SkipsClipboardBecausePaused(_paused))
    /\ _change_count' = RecordedAfterCheck(pb, _change_count)
    /\ ev' = [NoEvent EXCEPT
                 !.op = "tick",
                 !.src = IF has_changed(pb, _change_count) /\ has_image(pb)
                         THEN "clipboard" ELSE "none"]
    /\ UNCHANGED <<settingsVars, config, _screenshots, pb, loopVars, recognized>>

\* process_clipboard_image: get_image_data(TIFF) returns nothing
ClipboardImageNoData ==
    /\ query' = query
    /\ frame' = frame
    /\ plist' = plist
    /\ call' = call
    /\ login_items' = login_items
    /\ RunLoopFree(pc)
    /\ batch' = {}
    /\ WatchesClipboard(menu)
    /\ has_changed(pb, _change_count) /\ has_image(pb)
    /\ ~SkipsClipboardBecausePaused(_paused)
    /\ _change_count' = RecordedAfterCheck(pb, _change_count)
    /\ ev' = [NoEvent EXCEPT !.op = "nodata"]
    /\ UNCHANGED <<settingsVars, config, _screenshots, pb, loopVars, recognized>>

\* process_clipboard_image: the image on the pasteboard is processed
ClipboardImageProcessed(o) ==
    /\ query' = query
    /\ frame' = frame
    /\ plist' = plist
    /\ call' = call
    /\ login_items' = login_items
    /\ RunLoopFree(pc)
    /\ WatchesClipboard(menu)
    /\ has_changed(pb, _change_count) /\ has_image(pb)
    /\ ~SkipsClipboardBecausePaused(_paused)
    /\ process_image("clipboard", 0, o, <<>>,
                     RecordedAfterCheck(pb, _change_count))
    /\ UNCHANGED <<settingsVars, config>>

\* one run of clipboard_watcher, the callback of the rumps timer
ClipboardTick ==
    \/ ClipboardTickOff
    \/ ClipboardTickSkip
    \/ ClipboardImageNoData
    \/ \E o \in RecognitionOutcomes : ClipboardImageProcessed(o)

\* ------------------------------ the pasteboard calls of a handler, one by one
\* Between two calls that a handler makes to NSPasteboard another process can
\* write to the pasteboard.  The steps below stop at three such places: in
\* has_changed between its two changeCount() calls, in set_text and in clear
\* between the write and the changeCount() that follows it.  They follow
\* process_image with confirmation off.

\* the write of Pasteboard.set_text, called by process_image through copy
WriteOfSetText(src, text, clipboard_text) ==
    /\ pb.changeCount < MaxChangeCount
    /\ Len(clipboard_text) <= MaxClipLen
    /\ pb' = OSSetString(pb, clipboard_text)
    /\ pc' = "set_text"
    /\ cur' = [src |-> src, id |-> 0, text |-> text,
               clipboard_text |-> clipboard_text]
    /\ ev' = [NoEvent EXCEPT !.op = "image", !.src = src, !.loaded = TRUE,
                             !.recognized = TRUE, !.read = menu.append,
                             !.wrote = TRUE]

\* process_clipboard_image or the Services handler from the call of
\* process_image to the write of set_text, or to their end when nothing is
\* written
ImageToWrite(src, o) ==
    LET text == DetectedText(menu, o.frags, o.qrs)
        clipboard_text == ClipboardText(menu, pb, text)
        e == [NoEvent EXCEPT !.op = "image", !.src = src, !.loaded = TRUE,
                             !.recognized = TRUE]
    IN  /\ ~AsksFirst(menu)
        /\ ~menu.qrcodes => o.qrs = <<>>
        /\ IF o.error
           THEN /\ ev' = [e EXCEPT !.raised = Escapes(src)]
                /\ pc' = "idle" /\ cur' = NoCur /\ pb' = pb
           ELSE IF text = <<>>
           THEN /\ ev' = [e EXCEPT !.notified = Notification(menu, text),
                                   !.returned = TRUE]
                /\ pc' = "idle" /\ cur' = NoCur /\ pb' = pb
           ELSE WriteOfSetText(src, text, clipboard_text)

\* clipboard_watcher up to the first changeCount() of has_changed
WatcherFirstRead ==
    /\ RunLoopFree(pc)
    /\ WatchesClipboard(menu)
    /\ pc' = IF has_changed(pb, _change_count) THEN "has_changed" ELSE "idle"
    /\ ev' = [NoEvent EXCEPT
                 !.op = IF has_changed(pb, _change_count) THEN "compare"
                        ELSE "tick"]
    /\ batch' = {}
    /\ UNCHANGED <<settingsVars, config, _screenshots, query, pb, _change_count,
                   handler, todo, cur, recognized, frame, plist, call,
                   login_items>>

\* has_changed from its second changeCount() on, and clipboard_watcher after
\* it; data is whether get_image_data(TIFF) returns any
WatcherSecondRead(data, o) ==
    /\ pc = "has_changed"
    /\ _change_count' = pb.changeCount
    /\ IF ~has_image(pb) \/ SkipsClipboardBecausePaused(_paused)
       THEN /\ ev' = [NoEvent EXCEPT
                         !.op = "tick",
                         !.src = IF has_image(pb) THEN "clipboard" ELSE "none"]
            /\ pc' = "idle" /\ cur' = cur /\ pb' = pb
       ELSE IF ~data
       THEN /\ ev' = [NoEvent EXCEPT !.op = "nodata"]
            /\ pc' = "idle" /\ cur' = cur /\ pb' = pb
       ELSE ImageToWrite("clipboard", o)
    /\ UNCHANGED <<settingsVars, config, _screenshots, query, handler, todo,
                   recognized, batch, frame, plist, call, login_items>>

\* detectTextInImage_userData_error_ with one file, up to the write of set_text
ServiceFileToWrite(o) ==
    /\ RunLoopFree(pc)
    /\ batch' = {}
    /\ ImageToWrite("service", o)
    /\ UNCHANGED <<settingsVars, config, _screenshots, query, _change_count,
                   handler, todo, recognized, frame, plist, call, login_items>>

\* set_text after its write: self._change_count = self.pasteboard.changeCount(),
\* and what the caller of process_image does after it
SetTextRefresh ==
    /\ pc = "set_text"
    /\ _change_count' = ChangeCountAfterWrite(pb, _change_count)
    /\ ev' = [NoEvent EXCEPT !.op = "refresh", !.src = cur.src,
                             !.notified = Notification(menu, cur.text),
                             !.returned = TRUE]
    /\ pc' = "idle"
    /\ cur' = NoCur
    /\ UNCHANGED <<settingsVars, config, _screenshots, query, pb, handler, todo,
                   recognized, batch, frame, plist, call, login_items>>

\* on_clear_clipboard: the clearContents() of Pasteboard.clear
ClearWrite ==
    /\ RunLoopFree(pc)
    /\ pb.changeCount < MaxChangeCount
    /\ pb' = OSClearContents(pb)
    /\ pc' = "clear"
    /\ batch' = {}
    /\ ev' = [NoEvent EXCEPT !.op = "clearing"]
    /\ UNCHANGED <<settingsVars, config, _screenshots, query, _change_count,
                   handler, todo, cur, recognized, frame, plist, call,
                   login_items>>

\* Pasteboard.clear after clearContents():
\* self._change_count = self.pasteboard.changeCount()
ClearRefresh ==
    /\ pc = "clear"
    /\ _change_count' = ChangeCountAfterWrite(pb, _change_count)
    /\ pc' = "idle"
    /\ ev' = [NoEvent EXCEPT !.op = "clear"]
    /\ UNCHANGED <<settingsVars, config, _screenshots, query, pb, handler, todo,
                   cur, recognized, batch, frame, plist, call, login_items>>

\* ------------------------------------------------------------------ Services
\* detectTextInImage_userData_error_ is called with the files of the pasteboard
ServiceCall(files) ==
    /\ query' = query
    /\ frame' = frame
    /\ plist' = plist
    /\ call' = call
    /\ login_items' = login_items
    /\ RunLoopFree(pc)
    /\ batch' = {}
    /\ pc' = IF files = <<>> THEN "idle" ELSE "loop"
    /\ handler' = IF files = <<>> THEN "none" ELSE "service"
    /\ todo' = files
    /\ ev' = [NoEvent EXCEPT !.op = "service"]
    /\ UNCHANGED <<settingsVars, config, _screenshots, pb, _change_count, cur,
                   recognized>>

\* detectTextInImage_userData_error_: one file is processed
ServiceItem(o) ==
    /\ query' = query
    /\ frame' = frame
    /\ plist' = plist
    /\ call' = call
    /\ login_items' = login_items
    /\ pc = "loop" /\ handler = "service"
    /\ process_image("service", stringByResolvingSymlinksInPath(Head(todo)), o,
                     Tail(todo), _change_count)
    /\ UNCHANGED <<settingsVars, config>>

\* ------------------------------------- process_image, statement by statement
otherVars == <<menu, recognition_language, _paused, config, _screenshots, query,
               pb, _change_count, pc, handler, todo, cur, ev, recognized, batch,
               plist, call, login_items>>

\* languages = [...]
StmtLanguages ==
    /\ frame.at = "entered"
    /\ frame' = [frame EXCEPT !.at = "languages",
                              !.languages =
                                  LanguageList(menu, recognition_language)]
    /\ UNCHANGED otherVars

\* detected_text = detect_text_in_ciimage(...) returns; text = "\n".join(...)
StmtDetectText(frags) ==
    /\ frame.at = "languages"
    /\ frame' = [frame EXCEPT !.at = "text", !.detected_text = frags,
                              !.text = FilteredText(menu, frags)]
    /\ UNCHANGED otherVars

\* detect_text_in_ciimage raises and the call is left
StmtDetectTextRaises ==
    /\ frame.at = "languages"
    /\ frame' = [NoFrame EXCEPT !.at = "raised"]
    /\ UNCHANGED otherVars

\* if self.qrcodes.state: ...; qrs is what detect_qrcodes_in_ciimage finds in
\* the image when it is called.  detected_text is not read again.
StmtQRCodes(qrs) ==
    /\ frame.at = "text"
    /\ frame' = [frame EXCEPT !.at = "qrcodes",
                              !.detected_text = <<>>,
                              !.detected_qrcodes = DetectedQRCodes(menu, qrs),
                              !.text = WithQRCodes(frame.text,
                                                   DetectedQRCodes(menu, qrs))]
    /\ UNCHANGED otherVars

\* if text: if not self.linebreaks.state: text = text.replace("\n", " ");
\* with an empty text the call goes to return text.  detected_qrcodes is not
\* read again.
StmtLinebreaks ==
    /\ frame.at = "qrcodes"
    /\ frame' = [frame EXCEPT
                    !.at = IF frame.text = <<>> THEN "return" ELSE "linebreaks",
                    !.detected_qrcodes = <<>>,
                    !.text = IF frame.text # <<>> /\ ~menu.linebreaks
                             THEN ReplaceNL(frame.text) ELSE frame.text]
    /\ UNCHANGED otherVars

\* clipboard_text = ... (append or replace)
StmtClipboardText ==
    /\ frame.at = "linebreaks"
    /\ frame' = [frame EXCEPT !.at = "clipboard_text",
                              !.clipboard_text =
                                  ClipboardText(menu, pb, frame.text)]
    /\ UNCHANGED otherVars

\* a handler calls process_image, and the call is followed statement by
\* statement up to the point where it asks or copies
CallProcessImage ==
    /\ RunLoopFree(pc)
    /\ frame.at = "none"
    /\ frame' = NewFrame
    /\ pc' = "loop"
    /\ handler' = "process_image"
    /\ UNCHANGED <<menu, recognition_language, _paused, config, _screenshots,
                   query, pb, _change_count, todo, cur, ev, recognized, batch,
                   plist, call, login_items>>

\* the call that was followed is over and the handler returns to the run loop
ReturnProcessImage ==
    /\ pc = "loop" /\ handler = "process_image"
    /\ frame.at \in {"raised", "return", "clipboard_text"}
    /\ frame' = NoFrame
    /\ pc' = "idle"
    /\ handler' = "none"
    /\ UNCHANGED <<menu, recognition_language, _paused, config, _screenshots,
                   query, pb, _change_count, todo, cur, ev, recognized, batch,
                   plist, call, login_items>>

\* ----------------------------------- detect_text_in_ciimage, step by step
appVars == <<menu, recognition_language, _paused, config, _screenshots, query,
             pb, _change_count, pc, handler, todo, cur, ev, recognized, batch,
             plist, frame, login_items>>

\* 1 <= orientation <= 8
OrientationInRange(o) == 2 <= o.halves /\ o.halves <= 16

\* the orientation is a whole number
OrientationIsInteger(o) == o.halves % 2 = 0

\* languages = languages or ["en-US"]
recognition_languages(l) == IF l.list = <<>> THEN <<"en-US">> ELSE l.list

\* the request handler is made, or ValueError("orientation must be between 1
\* and 8") is raised
GatewayHandler ==
    /\ call.at = "entered"
    /\ call' = IF ~call.orientation.given \/ OrientationInRange(call.orientation)
               THEN [call EXCEPT !.at = "handler"]
               ELSE [call EXCEPT !.at = "raised", !.error = "orientation"]
    /\ UNCHANGED appVars

\* initWithCIImage_orientation_options_ takes an unsigned integer: what the
\* bridge does with a number that is no integer is not decided by this code;
\* it may convert it (GatewayHandler) or refuse it
GatewayBridgeRefuses ==
    /\ call.at = "entered"
    /\ call.orientation.given
    /\ OrientationInRange(call.orientation)
    /\ ~OrientationIsInteger(call.orientation)
    /\ call' = [call EXCEPT !.at = "raised", !.error = "bridge"]
    /\ UNCHANGED appVars

\* setRecognitionLanguages_(languages)
GatewayLanguages ==
    /\ call.at = "handler"
    /\ call' = [call EXCEPT !.at = "languages",
                            !.recognition_languages =
                                recognition_languages(call.languages)]
    /\ UNCHANGED appVars

\* performRequests_error_ and the statements after it
GatewayPerform(success, results) ==
    /\ call.at = "languages"
    /\ call' = IF success
               THEN [call EXCEPT !.at = "returned", !.performed = TRUE,
                                 !.results = results]
               ELSE [call EXCEPT !.at = "raised", !.performed = TRUE,
                                 !.error = "Vision request failed"]
    /\ UNCHANGED appVars

\* NSMetadataQuery posts NSMetadataQueryDidUpdateNotification in its
\* live-update phase, after the gathering-finished notification
UpdateWhenLive(results) ==
    /\ query = "live"
    /\ QueryDidUpdate(results)

\* an updated notification that reaches query_updated_ while the query is
\* still gathering; query_updated_ itself does not look at the phase
UpdateWhileGathering(results) ==
    /\ query # "live"
    /\ QueryDidUpdate(results)

\* ----------------------------------------------------------- specification
\* the configurations load_config can find in Textinator.plist, as far as
\* process_image reads them
PolicyConfigs ==
    {[DefaultConfig EXCEPT !.confidence = c, !.linebreaks = l, !.append = a,
                           !.detect_qrcodes = q, !.always_detect_english = e,
                           !.language = g] :
        c \in DOMAIN CONFIDENCE, l \in BOOLEAN, a \in BOOLEAN, q \in BOOLEAN,
        e \in BOOLEAN, g \in Languages}

\* the application has loaded some configuration, something is on the
\* pasteboard, and process_image has been called
InitPolicy ==
    /\ config \in PolicyConfigs
    /\ menu = MenuOfConfig(config)
    /\ recognition_language = config.language
    /\ _paused = FALSE
    /\ _screenshots = <<>>
    /\ query = "live"
    /\ pb \in PolicyPasteboards
    /\ _change_count = 0
    /\ pc = "idle"
    /\ handler = "none"
    /\ todo = <<>>
    /\ cur = NoCur
    /\ ev = NoEvent
    /\ recognized = {}
    /\ batch = {}
    /\ frame = NewFrame
    /\ plist = PlistOf(config)
    /\ call = NoCall
    /\ login_items = FALSE

\* one call of process_image up to the point where it asks or copies
NextPolicy ==
    \/ StmtLanguages
    \/ \E frags \in PolicyFrags : StmtDetectText(frags)
    \/ StmtDetectTextRaises
    \/ \E qrs \in PolicyQRCodes : StmtQRCodes(qrs)
    \/ StmtLinebreaks
    \/ StmtClipboardText

SpecPolicy == InitPolicy /\ [][NextPolicy]_vars

\* the application is up and detect_text_in_ciimage has been called
InitGateway ==
    /\ config = DefaultConfig
    /\ menu = MenuOfConfig(DefaultConfig)
    /\ recognition_language = DefaultConfig.language
    /\ _paused = FALSE
    /\ _screenshots = <<>>
    /\ query = "started"
    /\ pb = [string |-> <<>>, has_string |-> FALSE, has_image |-> FALSE,
             changeCount |-> 0]
    /\ _change_count = 0
    /\ pc = "idle"
    /\ handler = "none"
    /\ todo = <<>>
    /\ cur = NoCur
    /\ ev = NoEvent
    /\ recognized = {}
    /\ batch = {}
    /\ frame = NoFrame
    /\ plist = PlistOf(DefaultConfig)
    /\ call \in GatewayCalls
    /\ login_items = FALSE

\* one call of detect_text_in_ciimage
NextGateway ==
    \/ GatewayHandler
    \/ GatewayBridgeRefuses
    \/ GatewayLanguages
    \/ \E success \in BOOLEAN, results \in SeqsUpTo(Fragment, MaxFragments) :
          GatewayPerform(success, results)

SpecGateway == InitGateway /\ [][NextGateway]_vars

\* __init__ has built the menu and is about to call load_config
InitStartup ==
    /\ plist \in PlistFiles
    /\ config = NoConfig
    /\ menu = UncheckedMenu
    /\ recognition_language \in Languages
    /\ _paused = FALSE
    /\ _screenshots = <<>>
    /\ query = "started"
    /\ pb = [string |-> <<>>, has_string |-> FALSE, has_image |-> FALSE,
             changeCount |-> 0]
    /\ _change_count = 0
    /\ pc = "init"
    /\ handler = "none"
    /\ todo = <<>>
    /\ cur = NoCur
    /\ ev = NoEvent
    /\ recognized = {}
    /\ batch = {}
    /\ frame = NoFrame
    /\ call = NoCall
    /\ login_items = FALSE

\* the start of the application and the menu commands that change a setting
NextSettings ==
    \/ load_config
    \/ \E sender \in ToggleItems : on_toggle(sender)
    \/ \E sender \in ConfidenceItems : on_confidence(sender)
    \/ \E sender \in Languages : on_language(sender)
    \/ \E ok \in BOOLEAN : on_start_on_login(ok)
    \/ on_pause

SpecSettings == InitStartup /\ [][NextSettings]_vars

\* the settings the screenshot dispatcher branches on
DispatchToggles == {"confirmation", "append", "notification"}

\* the screenshot dispatcher: Spotlight notifications in the order in which
\* NSMetadataQuery posts them, pause, confirmation
Next ==
    \/ QueryDidStartGathering
    \/ QueryGatheringProgress
    \/ \E results \in ResultLists : QueryDidFinishGathering(results)
    \/ \E results \in ResultLists : UpdateWhenLive(results)
    \/ ScreenshotSeen
    \/ ScreenshotSkipped
    \/ ScreenshotLoadFailed
    \/ \E o \in RecognitionOutcomes : ScreenshotProcessed(o)
    \/ \E yes \in BOOLEAN : AlertAnswer(yes)
    \/ on_pause
    \/ \E sender \in DispatchToggles : on_toggle(sender)
    \/ \E text \in ExternalTexts : ExternalSetText(text)

Spec == Init /\ [][Next]_vars

\* the settings that decide how process_image commits a text
CommitToggles == {"confirmation", "append"}

\* the three callers of process_image, side by side
NextPipeline ==
    \/ QueryDidStartGathering
    \/ \E results \in ResultLists : QueryDidFinishGathering(results)
    \/ \E results \in ResultLists : UpdateWhenLive(results)
    \/ ScreenshotSeen
    \/ \E o \in RecognitionOutcomes : ScreenshotProcessed(o)
    \/ ClipboardTickSkip
    \/ ClipboardImageNoData
    \/ \E o \in RecognitionOutcomes : ClipboardImageProcessed(o)
    \/ \E files \in ResultLists : ServiceCall(files)
    \/ \E o \in RecognitionOutcomes : ServiceItem(o)
    \/ \E yes \in BOOLEAN : AlertAnswer(yes)
    \/ \E sender \in CommitToggles : on_toggle(sender)
    \/ ExternalSetImage
    \/ \E text \in ExternalTexts : ExternalSetText(text)

SpecPipeline == Init /\ [][NextPipeline]_vars

\* the settings the clipboard watcher and its call of process_image branch on
WatcherToggles == {"detect_clipboard", "confirmation", "append"}

\* the clipboard watcher next to the other writers of the pasteboard
NextWatcher ==
    \/ ClipboardTickOff
    \/ ClipboardTickSkip
    \/ ClipboardImageNoData
    \/ \E o \in RecognitionOutcomes : ClipboardImageProcessed(o)
    \/ \E yes \in BOOLEAN : AlertAnswer(yes)
    \/ on_pause
    \/ \E sender \in WatcherToggles : on_toggle(sender)
    \/ on_clear_clipboard
    \/ ExternalSetImage
    \/ \E text \in ExternalTexts : ExternalSetText(text)
    \/ \E text \in ExternalTexts : ExternalSetTextAndImage(text)

\* rumps.timer(CLIPBOARD_CHECK_INTERVAL) keeps calling clipboard_watcher
\* whenever the run loop is free
SpecWatcher == Init /\ [][NextWatcher]_vars /\ WF_vars(ClipboardTick)

\* the settings the callers of process_image read themselves
TriggerToggles == {"notification", "confirmation"}

\* the three triggers with pause and the notification setting: screenshots,
\* clipboard images, files of the Services menu
NextTriggers ==
    \/ QueryDidStartGathering
    \/ \E results \in ResultLists : QueryDidFinishGathering(results)
    \/ \E results \in ResultLists : UpdateWhenLive(results)
    \/ ScreenshotSeen
    \/ ScreenshotSkipped
    \/ \E o \in RecognitionOutcomes : ScreenshotProcessed(o)
    \/ ClipboardTickSkip
    \/ ClipboardImageNoData
    \/ \E o \in RecognitionOutcomes : ClipboardImageProcessed(o)
    \/ \E files \in ResultLists : ServiceCall(files)
    \/ \E o \in RecognitionOutcomes : ServiceItem(o)
    \/ \E yes \in BOOLEAN : AlertAnswer(yes)
    \/ on_pause
    \/ \E sender \in TriggerToggles : on_toggle(sender)
    \/ ExternalSetImage

SpecTriggers == Init /\ [][NextTriggers]_vars

\* the handlers while the source has not finished gathering: query_updated_
\* takes a notification of any name at any time, and here an updated
\* notification reaches it before the gathering-finished one
NextGathering ==
    \/ QueryDidStartGathering
    \/ QueryGatheringProgress
    \/ \E results \in ResultLists : UpdateWhileGathering(results)
    \/ ScreenshotSeen
    \/ ScreenshotSkipped
    \/ ScreenshotLoadFailed
    \/ \E o \in RecognitionOutcomes : ScreenshotProcessed(o)
    \/ \E yes \in BOOLEAN : AlertAnswer(yes)
    \/ on_pause
    \/ \E sender \in DispatchToggles : on_toggle(sender)
    \/ \E text \in ExternalTexts : ExternalSetText(text)

SpecGathering == Init /\ [][NextGathering]_vars

\* the start of the application, the confidence menu next to other menu
\* commands, and calls of process_image between them
NextThreshold ==
    \/ load_config
    \/ \E sender \in ConfidenceItems : on_confidence(sender)
    \/ \E sender \in {"qrcodes", "linebreaks"} : on_toggle(sender)
    \/ on_pause
    \/ CallProcessImage
    \/ StmtLanguages
    \/ \E frags \in PolicyFrags : StmtDetectText(frags)
    \/ StmtDetectTextRaises
    \/ \E qrs \in PolicyQRCodes : StmtQRCodes(qrs)
    \/ StmtLinebreaks
    \/ StmtClipboardText
    \/ ReturnProcessImage

SpecThreshold == InitStartup /\ [][NextThreshold]_vars

\* the handlers that use the pasteboard, one pasteboard call at a time, next
\* to other processes that write to it
NextRace ==
    \/ WatcherFirstRead
    \/ \E data \in BOOLEAN, o \in RecognitionOutcomes : WatcherSecondRead(data, o)
    \/ ClipboardTickOff
    \/ \E o \in RecognitionOutcomes : ServiceFileToWrite(o)
    \/ SetTextRefresh
    \/ ClearWrite
    \/ ClearRefresh
    \/ on_pause
    \/ \E sender \in {"append", "detect_clipboard"} : on_toggle(sender)
    \/ ExternalSetImage
    \/ \E text \in ExternalTexts : ExternalSetText(text)

SpecRace == Init /\ [][NextRace]_vars

\* every writer of the pasteboard next to the watcher: the screenshot
\* dispatcher, the watcher itself, the Services handler, the Clear Clipboard
\* command, other processes
NextClipboard ==
    \/ QueryDidStartGathering
    \/ \E results \in ResultLists : QueryDidFinishGathering(results)
    \/ \E results \in ResultLists : UpdateWhenLive(results)
    \/ ScreenshotSeen
    \/ ScreenshotSkipped
    \/ \E o \in RecognitionOutcomes : ScreenshotProcessed(o)
    \/ ClipboardTickOff
    \/ ClipboardTickSkip
    \/ ClipboardImageNoData
    \/ \E o \in RecognitionOutcomes : ClipboardImageProcessed(o)
    \/ \E files \in ResultLists : ServiceCall(files)
    \/ \E o \in RecognitionOutcomes : ServiceItem(o)
    \/ \E yes \in BOOLEAN : AlertAnswer(yes)
    \/ on_pause
    \/ \E sender \in {"detect_clipboard", "confirmation"} : on_toggle(sender)
    \/ on_clear_clipboard
    \/ ExternalSetImage
    \/ \E text \in ExternalTexts : ExternalSetText(text)

SpecClipboard == Init /\ [][NextClipboard]_vars

\* ------------------------------------------------------------------ claims
\* the identity process_screenshot is about to visit
HeadId == stringByResolvingSymlinksInPath(Head(todo))

\* process_screenshot is at an item and the step is the application's
ScreenshotStep ==
    /\ pc = "loop" /\ handler = "process_screenshot"
    /\ todo' = Tail(todo)

\* the last step ended a process_screenshot call
ScreenshotHandlerReturned ==
    /\ pc = "idle"
    /\ ev.src = "screenshot"
    /\ ev.op \in {"seen", "skipped", "loadfailed", "image", "yes", "no"}

\* C1: over any sequence of gathering-finished and updated notifications,
\* pauses and settings changes, process_screenshot hands an identity to the
\* recognition backend at most once, also after a recognition error.
C1_RecognizedAtMostOnce ==
    [][\A o \in RecognitionOutcomes :
          ScreenshotProcessed(o) => HeadId \notin recognized]_vars

\* C2 (as claimed): when process_screenshot returns, the pasteboard text is the
\* text T of every new identity that the notification carried and that was
\* processed with confirmation off and append off and a non-empty T, and the
\* registry maps that identity to T.
C2_ClipboardIsTextAtReturn ==
    (ScreenshotHandlerReturned /\ ~menu.confirmation /\ ~menu.append)
    => \A id \in batch :
          _screenshots[id].s # <<>>
          => /\ _screenshots[id].tag = "str"
             /\ pb.has_string /\ pb.string = _screenshots[id].s

\* C2 (amended): when the processing of a new identity ends (not paused, image
\* loaded, confirmation off, append off, non-empty text T), the pasteboard text
\* is T and the registry maps the identity to T; the registry entry is still
\* the same when process_screenshot returns.
C2_ClipboardIsTextAfterItem ==
    [][/\ (/\ pc = "loop" /\ handler = "process_screenshot"
           /\ ~menu.confirmation /\ ~menu.append)
          => \A o \in RecognitionOutcomes :
                (/\ ~o.error
                 /\ ScreenshotProcessed(o)
                 /\ DetectedText(menu, o.frags, o.qrs) # <<>>)
                => /\ pb'.has_string
                   /\ pb'.string = DetectedText(menu, o.frags, o.qrs)
                   /\ HeadId \in DOMAIN _screenshots'
                   /\ _screenshots'[HeadId]
                         = PyStr(DetectedText(menu, o.frags, o.qrs))
       /\ pc # "idle" => \A id \in DOMAIN _screenshots :
                             _screenshots'[id] = _screenshots[id]]_vars

C2_Witness ==
    /\ ev.op = "image" /\ ev.src = "screenshot" /\ ev.wrote /\ ~ev.asked
    /\ ~menu.append /\ ~menu.confirmation
    /\ pc = "loop"
    /\ _screenshots[ev.id] = PyStr(<<"a", NL, "a">>)
    /\ pb.string = <<"a", NL, "a">>

\* C3: an item whose identity is a key of the registry, whatever the value, is
\* passed over: no image load, no recognition, no pasteboard write, no
\* notification, and the registry stays as it is.
C3_SeenIsIgnored ==
    [][(ScreenshotStep /\ HeadId \in DOMAIN _screenshots)
       => /\ _screenshots' = _screenshots
          /\ pb' = pb /\ _change_count' = _change_count
          /\ recognized' = recognized
          /\ pc' # "alert"
          /\ ~ev'.loaded /\ ~ev'.recognized /\ ~ev'.read /\ ~ev'.asked
          /\ ~ev'.wrote /\ ev'.notified = "none"]_vars

C3_Witness ==
    /\ ev.op = "seen"
    /\ _screenshots[ev.id] = PyStr(<<>>)
    /\ \E id \in DOMAIN _screenshots : _screenshots[id] = SKIPPED

\* C4: the gathering-finished notification marks every identity it lists, and
\* a marked identity stays marked and is never recognized, never leads to a
\* pasteboard write and never to a notification in a later updated notification.
C4_GatheredNeverProcessed ==
    [][/\ (pc = "idle" /\ query = "gathering")
          => \A results \in ResultLists :
                QueryDidFinishGathering(results)
                => \A i \in DOMAIN results :
                      /\ stringByResolvingSymlinksInPath(results[i])
                            \in DOMAIN _screenshots'
                      /\ _screenshots'[stringByResolvingSymlinksInPath(
                                           results[i])] = PyTrue
       /\ \A id \in DOMAIN _screenshots :
            _screenshots[id] = PyTrue
            => /\ _screenshots'[id] = PyTrue
               /\ (ScreenshotStep /\ HeadId = id)
                  => /\ ~ev'.loaded /\ ~ev'.recognized /\ ~ev'.wrote
                     /\ ev'.notified = "none"
                     /\ pb' = pb /\ pc' # "alert"]_vars

C4_Witness ==
    /\ ev.op = "seen"
    /\ _screenshots[ev.id] = PyTrue
    /\ recognized # {}

C6_PausedIsSkipped ==
    [][/\ (ScreenshotStep /\ HeadId \notin DOMAIN _screenshots /\ _paused)
          => /\ HeadId \in DOMAIN _screenshots'
             /\ _screenshots'[HeadId] = SKIPPED
             /\ pb' = pb /\ _change_count' = _change_count
             /\ recognized' = recognized
             /\ pc' # "alert"
             /\ ~ev'.loaded /\ ~ev'.recognized /\ ~ev'.asked /\ ~ev'.wrote
             /\ ev'.notified = "none"
       /\ \A id \in DOMAIN _screenshots :
             _screenshots[id] = SKIPPED
             => /\ _screenshots'[id] \in {SKIPPED, PyTrue}
                /\ (ScreenshotStep /\ HeadId = id)
                   => /\ ~ev'.loaded /\ ~ev'.recognized /\ ~ev'.wrote
                      /\ ev'.notified = "none"
                      /\ pb' = pb /\ pc' # "alert"
       /\ (ScreenshotStep /\ HeadId \notin DOMAIN _screenshots /\ ~_paused)
          => /\ ev'.op \in {"loadfailed", "image"}
             /\ ev'.op = "image" => ev'.recognized
             /\ HeadId \in DOMAIN _screenshots'
                => _screenshots'[HeadId] # SKIPPED]_vars

C6_Witness ==
    /\ ~_paused
    /\ ev.op = "image" /\ ev.src = "screenshot" /\ ev.wrote
    /\ \E id \in DOMAIN _screenshots :
          /\ _screenshots[id] = SKIPPED
          /\ id # ev.id
          /\ id \notin recognized

\* a step in which process_image runs for some caller
ImageStep(o) ==
    \/ ScreenshotProcessed(o)
    \/ ClipboardImageProcessed(o)
    \/ ServiceItem(o)

\* C7: with confirmation on, the pipeline writes to the pasteboard only in the
\* step that answers Yes to the alert of that event, and writes the proposed
\* clipboard_text; with confirmation off it writes at once, without asking.
C7_WriteNeedsYes ==
    [][/\ pc = "alert" => menu.confirmation
       /\ (pb' # pb /\ ev'.op \in {"image", "yes", "no"} /\ menu.confirmation)
          => /\ pc = "alert" /\ ev'.op = "yes"
             /\ ev'.src = cur.src /\ ev'.id = cur.id
             /\ pb'.has_string /\ pb'.string = cur.clipboard_text
       /\ (pc = "alert" /\ ev'.op = "yes")
          => pb'.has_string /\ pb'.string = cur.clipboard_text
       /\ (~menu.confirmation /\ pc # "alert" /\ ev'.op = "image")
          => \A o \in RecognitionOutcomes :
                (/\ ~o.error
                 /\ DetectedText(menu, o.frags, o.qrs) # <<>>
                 /\ ImageStep(o))
                => /\ pc' # "alert" /\ ~ev'.asked
                   /\ pb'.has_string
                   /\ pb'.string = ClipboardText(menu, pb,
                                       DetectedText(menu, o.frags, o.qrs))]_vars

C7_Witness ==
    /\ menu.confirmation /\ menu.append
    /\ ev.op = "yes" /\ ev.src = "clipboard" /\ ev.wrote
    /\ pb.string = <<"a">>

\* C8: answering No leaves the pasteboard as it was before the event, in
\* append mode and in replace mode: neither the step that asks nor the step
\* that takes the answer writes.
C8_NoLeavesClipboard ==
    [][/\ (pc = "alert" /\ ev'.op = "no")
          => pb' = pb /\ _change_count' = _change_count /\ ~ev'.wrote
       /\ (pc # "alert" /\ pc' = "alert") => pb' = pb]_vars

C8_Witness ==
    /\ ev.op = "no" /\ menu.append
    /\ pb.has_string /\ pb.string = <<"x">>
    /\ _screenshots[ev.id] = PyStr(<<"a">>)

\* C9 (as claimed): after No for a screenshot the registry holds the
\* clipboard_text that Yes would have copied, in append mode too.
C9_DeclinedStoresClipboardText ==
    [][(pc = "alert" /\ cur.src = "screenshot" /\ ev'.op = "no")
       => /\ cur.id \in DOMAIN _screenshots'
          /\ _screenshots'[cur.id] = PyStr(cur.clipboard_text)]_vars

\* C9 (amended): after No for a screenshot the registry holds the newly
\* detected text; that is the clipboard_text Yes would have copied in replace
\* mode, and in append mode when the pasteboard held no text.
C9_DeclinedStoresDetectedText ==
    [][(pc = "alert" /\ cur.src = "screenshot" /\ ev'.op = "no")
       => /\ cur.id \in DOMAIN _screenshots'
          /\ _screenshots'[cur.id] = PyStr(cur.text)
          /\ ~menu.append => cur.text = cur.clipboard_text]_vars

C9_Witness ==
    /\ ev.op = "no" /\ ev.src = "screenshot" /\ menu.append
    /\ _screenshots[ev.id] = PyStr(<<"a">>)
    /\ pb.has_string /\ pb.string = <<"x">>

\* C10: when the final text is empty the pasteboard is neither read nor
\* written, nothing is asked, a screenshot is registered with the empty
\* string, and the notification, if enabled, says "No text detected".
C10_EmptyTextTouchesNothing ==
    [][(pc = "loop" /\ handler = "process_screenshot")
       => \A o \in RecognitionOutcomes :
             (/\ ~o.error
              /\ DetectedText(menu, o.frags, o.qrs) = <<>>
              /\ ScreenshotProcessed(o))
             => /\ pb' = pb /\ _change_count' = _change_count
                /\ ~ev'.read /\ ~ev'.wrote /\ ~ev'.asked /\ pc' # "alert"
                /\ HeadId \in DOMAIN _screenshots'
                /\ _screenshots'[HeadId] = PyStr(<<>>)
                /\ ev'.notified = IF menu.notification
                                  THEN "No text detected" ELSE "none"]_vars

C10_Witness ==
    /\ ev.op = "image" /\ ev.src = "screenshot"
    /\ ev.notified = "No text detected"
    /\ menu.append /\ menu.confirmation
    /\ _screenshots[ev.id] = PyStr(<<>>)

\* the threshold the checked confidence item stands for
Threshold == CONFIDENCE[get_confidence_state(menu)]

\* the fragments of a result list whose confidence is at least t
RECURSIVE Surviving(_, _)
Surviving(frags, t) ==
    IF frags = <<>> THEN <<>>
    ELSE (IF Head(frags).conf >= t THEN <<Head(frags)>> ELSE <<>>)
         \o Surviving(Tail(frags), t)

\* the lines of a text: the tokens between its newlines
Lines(text) == SelectSeq(text, LAMBDA c : c # NL)

\* C11: for each of the three thresholds and every fragment list, the
\* fragments that make up the text are exactly those whose confidence is at
\* least the threshold; a fragment whose confidence equals the threshold is
\* kept.
C11_KeepsAtOrAboveThreshold ==
    frame.at = "text"
    => /\ Threshold = IF menu.confidence_low THEN 30
                      ELSE IF menu.confidence_medium THEN 50 ELSE 80
       /\ Len(Lines(frame.text))
             = Len(Surviving(frame.detected_text, Threshold))
       /\ \A i \in DOMAIN Lines(frame.text) :
             Lines(frame.text)[i]
                = Surviving(frame.detected_text, Threshold)[i].text[1]
       /\ \A i \in DOMAIN frame.detected_text :
             (Len(frame.detected_text) = 1
              /\ frame.detected_text[i].conf = Threshold)
             => frame.text = frame.detected_text[i].text

C11_Witness ==
    /\ frame.at = "text"
    /\ menu.confidence_medium
    /\ frame.detected_text = <<[text |-> <<"a">>, conf |-> CONFIDENCE.LOW],
                               [text |-> <<"b">>, conf |-> CONFIDENCE.MEDIUM]>>
    /\ frame.text = <<"b">>

\* C12: the texts of the surviving fragments are joined with one newline
\* between neighbours, in the order of the result list, nothing sorted and
\* no duplicate removed.
C12_JoinedInBackendOrder ==
    frame.at = "text"
    => LET kept == Surviving(frame.detected_text, Threshold)
       IN  /\ Len(frame.text) = IF kept = <<>> THEN 0 ELSE 2 * Len(kept) - 1
           /\ \A i \in DOMAIN frame.text :
                 frame.text[i] = IF i % 2 = 0 THEN NL
                                 ELSE kept[(i + 1) \div 2].text[1]

C12_Witness ==
    /\ frame.at = "text"
    /\ menu.confidence_low
    /\ frame.detected_text = <<[text |-> <<"b">>, conf |-> CONFIDENCE.HIGH],
                               [text |-> <<"a">>, conf |-> CONFIDENCE.HIGH]>>
    /\ frame.text = <<"b", NL, "a">>

\* C13: with QR detection on, the payloads found follow the joined text, one
\* per line, with exactly one newline between the text and the first payload;
\* without surviving text the result is the payloads joined by newlines;
\* without payloads the text stays as it is.
C13_QRCodesAppended ==
    [][(frame.at = "text" /\ menu.qrcodes)
       => \A qrs \in PolicyQRCodes :
             StmtQRCodes(qrs)
             => LET off == IF frame.text = <<>> THEN 0 ELSE Len(frame.text) + 1
                IN  IF qrs = <<>> THEN frame'.text = frame.text
                    ELSE /\ Len(frame'.text) = off + 2 * Len(qrs) - 1
                         /\ \A i \in DOMAIN frame.text :
                               frame'.text[i] = frame.text[i]
                         /\ off > 0 => frame'.text[off] = NL
                         /\ \A j \in DOMAIN qrs :
                               /\ frame'.text[off + 2 * j - 1] = qrs[j][1]
                               /\ j > 1 => frame'.text[off + 2 * j - 2] = NL]_vars

C13_Witness ==
    /\ frame.at = "qrcodes"
    /\ menu.qrcodes
    /\ frame.detected_qrcodes = <<<<"q">>, <<"r">>>>
    /\ frame.text = <<"a", NL, "q", NL, "r">>

\* the tokens a QR payload is made of
QRTokens == {p[1] : p \in PolicyQRPayloads}

\* C14: with QR detection off nothing the QR detector could find enters the
\* call: the text is the same after the QR statement as before it, whatever
\* the image holds, and no payload is part of the text or of clipboard_text.
C14_NoQRCodesWhenOff ==
    [][~menu.qrcodes
       => /\ frame.at = "text"
             => \A qrs \in PolicyQRCodes :
                   StmtQRCodes(qrs)
                   => /\ frame'.text = frame.text
                      /\ frame'.detected_qrcodes = <<>>
          /\ \A i \in DOMAIN frame'.text : frame'.text[i] \notin QRTokens
          /\ \A i \in DOMAIN frame'.clipboard_text :
                frame'.clipboard_text[i] \notin QRTokens]_vars

C14_Witness ==
    /\ frame.at = "clipboard_text"
    /\ ~menu.qrcodes
    /\ frame.text = <<"a", NL, "b">>
    /\ frame.clipboard_text = <<"a", NL, "b">>

\* C15: with "Keep linebreaks" off the text the call goes on with holds no
\* newline: every newline of the joined text and QR block has become one
\* space, everything else is as it was, and a text of one line is unchanged.
C15_LinebreaksReplaced ==
    [][~menu.linebreaks
       => /\ (frame.at = "qrcodes" /\ StmtLinebreaks)
             => /\ Len(frame'.text) = Len(frame.text)
                /\ \A i \in DOMAIN frame.text :
                      frame'.text[i] = IF frame.text[i] = NL THEN SP
                                       ELSE frame.text[i]
                /\ (\A i \in DOMAIN frame.text : frame.text[i] # NL)
                   => frame'.text = frame.text
          /\ frame'.at \in {"linebreaks", "clipboard_text", "return"}
             => \A i \in DOMAIN frame'.text : frame'.text[i] # NL]_vars

C15_Witness ==
    /\ frame.at = "linebreaks"
    /\ ~menu.linebreaks /\ menu.qrcodes
    /\ frame.text = <<"a", SP, "b", SP, "q">>

\* C16: in append mode clipboard_text is the old pasteboard text, a newline
\* and the new text when the pasteboard holds a text that is not empty, and
\* the new text alone when it holds no text or an empty one.
C16_AppendJoinsWithNewline ==
    (frame.at = "clipboard_text" /\ menu.append)
    => /\ frame.text # <<>>
       /\ IF pb.has_string /\ pb.string # <<>>
          THEN frame.clipboard_text = pb.string \o <<NL>> \o frame.text
          ELSE frame.clipboard_text = frame.text

C16_Witness ==
    /\ frame.at = "clipboard_text"
    /\ menu.append
    /\ pb.has_string /\ pb.string = <<"x">>
    /\ frame.clipboard_text = <<"x", NL, "a">>

\* C17: the language list of the call is the primary language followed by
\* "en-US" when "Always detect English" is checked and the primary language
\* is not "en-US", and the primary language alone otherwise; it is never
\* empty and never holds "en-US" twice.
C17_LanguageList ==
    frame.at \in {"languages", "text", "qrcodes", "linebreaks", "clipboard_text",
                  "return"}
    => /\ frame.languages
            = IF menu.language_english /\ recognition_language # "en-US"
              THEN <<recognition_language, "en-US">>
              ELSE <<recognition_language>>
       /\ frame.languages # <<>>
       /\ Cardinality({i \in DOMAIN frame.languages :
                          frame.languages[i] = "en-US"}) <= 1

C17_Witness ==
    /\ frame.at = "languages"
    /\ menu.language_english
    /\ frame.languages = <<"fr-FR", "en-US">>

\* C18: while "Detect text in images on clipboard" is off, a run of
\* clipboard_watcher does nothing: no recognition, the pasteboard and the
\* recorded change count stay as they are, also with a new image on the
\* pasteboard.
C18_WatcherOffIsNoOp ==
    [][(pc = "idle" /\ ~menu.detect_clipboard /\ ClipboardTick)
       => /\ pb' = pb /\ _change_count' = _change_count
          /\ _screenshots' = _screenshots
          /\ pc' = "idle"
          /\ ev'.op = "tick"
          /\ ~ev'.loaded /\ ~ev'.recognized /\ ~ev'.read /\ ~ev'.asked
          /\ ~ev'.wrote /\ ev'.notified = "none"]_vars

C18_Witness ==
    /\ ev.op = "tick"
    /\ ~menu.detect_clipboard /\ ~_paused
    /\ pb.has_image
    /\ pb.changeCount # _change_count

\* C19: a run of clipboard_watcher that finds the change count it recorded
\* does nothing; a run that processes the image starts from a change count
\* above the recorded one and records it, and the recorded count never
\* falls, so that one change of the pasteboard leads to one run at most, also
\* when the image stays on the pasteboard.
C19_UnchangedCountIsNoOp ==
    [][/\ (/\ pc = "idle" /\ menu.detect_clipboard
           /\ pb.changeCount = _change_count /\ ClipboardTick)
          => /\ pb' = pb /\ _change_count' = _change_count
             /\ pc' = "idle"
             /\ ev'.op = "tick"
             /\ ~ev'.loaded /\ ~ev'.recognized /\ ~ev'.asked /\ ~ev'.wrote
             /\ ev'.notified = "none"
       /\ (pc = "idle" /\ \E o \in RecognitionOutcomes :
                              ClipboardImageProcessed(o))
          => /\ _change_count < pb.changeCount
             /\ _change_count' >= pb.changeCount
       /\ _change_count <= pb.changeCount
       /\ _change_count' >= _change_count]_vars

C19_Witness ==
    /\ ev.op = "tick" /\ pc = "idle"
    /\ menu.detect_clipboard /\ ~_paused /\ menu.confirmation
    /\ pb.has_image
    /\ pb.changeCount = _change_count
    /\ pb.changeCount = 1

\* an image another process has put on the pasteboard waits for the watcher,
\* which is on, not paused, and copies without asking and without appending
ImagePending ==
    /\ pc = "idle"
    /\ pb.has_image /\ pb.changeCount # _change_count
    /\ pb.changeCount < MaxChangeCount
    /\ menu.detect_clipboard /\ ~_paused
    /\ ~menu.confirmation /\ ~menu.append

\* the watcher has processed the image and has put a text on the pasteboard
TextCopied ==
    /\ ev.op = "image" /\ ev.src = "clipboard" /\ ev.wrote
    /\ pb.has_string /\ pb.string # <<>>

\* the watcher has run but there was no text: no image data, a recognition
\* error, or nothing recognized
NoTextRun ==
    \/ ev.op = "nodata"
    \/ ev.op = "image" /\ ev.src = "clipboard" /\ ~ev.wrote

\* something else came first: the user cleared the pasteboard, paused or
\* changed a setting, or another process wrote to the pasteboard and did not
\* leave an image that waits for the watcher
Disturbed ==
    \/ ev.op \in {"clear", "menu"}
    \/ ev.op = "external" /\ ~ImagePending

\* C20: an image put on the pasteboard by another process while the watcher
\* is on and not paused (confirmation off, append off) is eventually
\* processed, given that the timer keeps ticking, unless something else
\* changes the pasteboard or the settings first; and when its recognition
\* gives a text T that is not empty, the pasteboard text is T.
C20_ImageEventuallyCopied ==
    /\ ImagePending ~> (TextCopied \/ NoTextRun \/ Disturbed)
    /\ [][(pc = "idle" /\ ~menu.confirmation /\ ~menu.append)
          => \A o \in RecognitionOutcomes :
                (/\ ~o.error
                 /\ DetectedText(menu, o.frags, o.qrs) # <<>>
                 /\ ClipboardImageProcessed(o))
                => /\ pb'.has_string
                   /\ pb'.string = DetectedText(menu, o.frags, o.qrs)
                   /\ ev'.wrote]_vars

C20_Witness ==
    /\ TextCopied
    /\ ~menu.confirmation /\ ~menu.append
    /\ pb.string = <<"a", NL, "a">>

\* C21: a tick of the clipboard watcher that finds both a text and an image on
\* the pasteboard skips it: no recognition is run and the pasteboard keeps the
\* text that was put there.
C21_TextAndImageSkipped ==
    [][(pc = "idle" /\ pb.has_image /\ pb.has_string /\ ClipboardTick)
       => /\ ~ev'.recognized
          /\ pc' = "idle"
          /\ pb' = pb]_vars

\* C22: a run of clipboard_watcher that finds a changed pasteboard with an
\* image while the application is paused runs no recognition, leaves the
\* pasteboard as it is and adds nothing to the registry.
C22_PausedTickRunsNothing ==
    [][(/\ pc = "idle" /\ menu.detect_clipboard /\ _paused
        /\ pb.has_image /\ pb.changeCount # _change_count
        /\ ClipboardTick)
       => /\ ev'.op = "tick"
          /\ ~ev'.loaded /\ ~ev'.recognized /\ ~ev'.asked /\ ~ev'.wrote
          /\ ev'.notified = "none"
          /\ pc' = "idle"
          /\ pb' = pb
          /\ recognized' = recognized
          /\ _screenshots' = _screenshots]_vars

C22_Witness ==
    /\ ev.op = "tick" /\ ev.src = "clipboard"
    /\ _paused /\ menu.detect_clipboard
    /\ pb.has_image /\ ~pb.has_string

\* C23: a step of the clipboard path (a run of clipboard_watcher, the answer
\* to the alert of a clipboard image) leaves the registry as it is, and whether
\* it processes a new image does not depend on the registry: with the watcher
\* on, the application not paused and a new image on the pasteboard, the run
\* goes to process_clipboard_image, also for an image whose text a processed
\* screenshot has already put into the registry.
C23_ClipboardIgnoresRegistry ==
    [][/\ (ev'.src = "clipboard" \/ ev'.op \in {"tick", "nodata"})
          => /\ _screenshots' = _screenshots
             /\ recognized' = recognized
       /\ (/\ pc = "idle" /\ menu.detect_clipboard /\ ~_paused
           /\ pb.has_image /\ pb.changeCount # _change_count
           /\ ClipboardTick)
          => (ev'.op = "nodata" \/ (ev'.op = "image" /\ ev'.recognized))]_vars

C23_Witness ==
    /\ ev.op = "image" /\ ev.src = "clipboard" /\ ev.recognized /\ ev.wrote
    /\ pb.string # <<>>
    /\ \E id \in DOMAIN _screenshots : _screenshots[id] = PyStr(pb.string)

\* C24: the Services handler hands every file it is given to process_image,
\* paused or not, in the registry or not, and leaves the registry as it is:
\* at every file it runs the recognition and goes on to the next file.
C24_ServiceRunsEveryFile ==
    [][(pc = "loop" /\ handler = "service")
       => \A o \in RecognitionOutcomes :
             ServiceItem(o)
             => /\ ev'.recognized
                /\ _screenshots' = _screenshots
                /\ todo' = Tail(todo)]_vars

\* the outcome of a recognition that fails: detect_text_in_ciimage raises
ErrorOutcome == [error |-> TRUE, frags |-> <<>>, qrs |-> <<>>]

\* C25: a recognition error during a screenshot or a clipboard image is
\* handled as "no text detected": no exception leaves the handler, the
\* pasteboard stays as it is, process_screenshot stores the empty string for
\* the identity and goes on with its loop.
C25_ErrorIsNoText ==
    [][/\ ScreenshotProcessed(ErrorOutcome)
          => /\ ~ev'.raised
             /\ pb' = pb
             /\ todo' = Tail(todo)
             /\ HeadId \in DOMAIN _screenshots'
             /\ _screenshots'[HeadId] = PyStr(<<>>)
       /\ ClipboardImageProcessed(ErrorOutcome)
          => /\ ~ev'.raised
             /\ pb' = pb]_vars

\* C26: when ciimage_from_file returns no image, the item is passed over with
\* no recognition, no pasteboard change and no notification, and its identity
\* is not put into the registry; an item whose identity is not in the registry
\* is attempted (its image loaded) whenever it comes while the application is
\* not paused, so the same identity is attempted again when it comes again.
C26_LoadFailureNotMarkedSeen ==
    [][(/\ pc = "loop" /\ handler = "process_screenshot"
        /\ HeadId \notin DOMAIN _screenshots /\ ~_paused)
       => /\ ScreenshotLoadFailed
             => /\ ~ev'.loaded /\ ~ev'.recognized /\ ~ev'.asked /\ ~ev'.wrote
                /\ ev'.notified = "none"
                /\ recognized' = recognized
                /\ pb' = pb /\ _change_count' = _change_count
                /\ _screenshots' = _screenshots
                /\ HeadId \notin DOMAIN _screenshots'
                /\ todo' = Tail(todo)
          /\ ev'.src = "screenshot"
             => /\ ev'.op \in {"loadfailed", "image"}
                /\ ev'.id = HeadId]_vars

\* the load of an identity has failed and the next item of the notification
\* carries the same identity (another path of the same file)
C26_Witness ==
    /\ ev.op = "loadfailed"
    /\ pc = "loop" /\ handler = "process_screenshot"
    /\ HeadId = ev.id
    /\ ev.id \notin DOMAIN _screenshots
    /\ ~_paused

\* the arguments for which the gateway has to signal InvalidArgument: an
\* orientation that is given and is no integer in 1..8, a language list that
\* is given and empty
InvalidArgument(c) ==
    \/ /\ c.orientation.given
       /\ ~(OrientationIsInteger(c.orientation)
            /\ OrientationInRange(c.orientation))
    \/ c.languages.given /\ c.languages.list = <<>>

\* C27: a call of detect_text_in_ciimage with an orientation that is given
\* and is no integer in 1..8, or with an empty language list, is ended by an
\* exception before the recognition request is performed; no default takes
\* the place of the bad argument.
C27_InvalidArgumentSignalled ==
    (call.at # "none" /\ InvalidArgument(call))
    => /\ ~call.performed
       /\ call.at \in {"entered", "handler", "raised"}
       /\ call.recognition_languages = <<>>

\* C28: a handler posts a notification exactly in the step in which
\* process_image has returned to it (a screenshot, a clipboard image or a
\* Services file has been processed) and "Notification" is checked at that
\* moment; with the setting off a detected text is still copied to the
\* pasteboard and no notification is posted.
C28_NotifiesIffEnabled ==
    [][/\ ev'.notified # "none"
          => menu.notification /\ ev'.returned
       /\ ev'.returned
          => /\ ev'.op \in {"image", "yes", "no"}
             /\ ev'.src \in {"screenshot", "clipboard", "service"}
             /\ (ev'.notified # "none") = menu.notification
       /\ (pc \in {"idle", "loop"} /\ ~menu.notification /\ ~menu.confirmation
           /\ ev'.op = "image")
          => \A o \in RecognitionOutcomes :
                (/\ ~o.error
                 /\ DetectedText(menu, o.frags, o.qrs) # <<>>
                 /\ \/ ev'.src = "screenshot" /\ ScreenshotProcessed(o)
                    \/ ev'.src = "clipboard" /\ ClipboardImageProcessed(o)
                    \/ ev'.src = "service" /\ ServiceItem(o))
                => ev'.wrote /\ ev'.returned /\ ev'.notified = "none"]_vars

C28_Witness ==
    /\ ev.op = "image" /\ ev.src = "clipboard" /\ ev.returned
    /\ ~menu.notification
    /\ ev.notified = "none"
    /\ ev.wrote /\ pb.has_string /\ pb.string # <<>>

\* C29: load_config never fails: whatever is in Textinator.plist, it gets to
\* its end, with the defaults for a file that is missing or cannot be used
\* and CONFIDENCE_DEFAULT for a confidence name it does not know, and the
\* file is rewritten with the configuration in use.
C29_LoadConfigNeverFails ==
    [][pc = "init"
       => /\ pc' = "idle"
          /\ ~ev'.raised
          /\ ev'.saved /\ plist' = PlistOf(config')
          /\ plist.kind # "dict"
             => config' = [DefaultConfig EXCEPT !.language = recognition_language]
          /\ config'.confidence \in DOMAIN CONFIDENCE
          /\ (plist.kind = "dict" /\ "confidence" \in plist.keys
              /\ plist.value.confidence \notin DOMAIN CONFIDENCE)
             => config'.confidence = CONFIDENCE_DEFAULT]_vars

\* C30: every handler that changes a setting (a toggle, the confidence, the
\* language, start on login, pause) rewrites the file, and the file then
\* holds the settings in memory.
C30_SettingsWrittenBack ==
    [][(pc = "idle" /\ settingsVars' # settingsVars)
       => /\ ev'.saved
          /\ plist' = PlistOf(config')
          /\ config' = ConfigOf(menu', recognition_language', config')]_vars

\* C31: the Clear Clipboard command leaves the pasteboard without a text (an
\* empty text for the reader) and without an image, paused or not and whatever
\* the settings; it leaves the registry, the settings and the settings file as
\* they are; and the recorded change count is the one of the pasteboard after
\* it, so that a run of clipboard_watcher that follows it directly sees no
\* change and does nothing.
C31_ClearClipboard ==
    [][/\ (pc = "idle" /\ on_clear_clipboard)
          => /\ get_text(pb') = <<>>
             /\ ~has_text(pb') /\ ~has_image(pb')
             /\ _screenshots' = _screenshots
             /\ settingsVars' = settingsVars
             /\ config' = config /\ plist' = plist
             /\ ~has_changed(pb', _change_count')
             /\ ev'.op = "clear"
       /\ (ev.op = "clear" /\ ClipboardTick)
          => /\ ev'.op = "tick" /\ ev'.src = "none"
             /\ ~ev'.recognized /\ ~ev'.asked /\ ~ev'.wrote
             /\ pb' = pb /\ _change_count' = _change_count
             /\ pc' = "idle"]_vars

\* the command has cleared a text while the application was paused, with the
\* watcher on and a registry that is not empty, and the watcher has run since
C31_Witness ==
    /\ ev.op = "tick" /\ ev.src = "none"
    /\ _paused /\ menu.detect_clipboard
    /\ _screenshots # <<>>
    /\ ~pb.has_string /\ ~pb.has_image
    /\ pb.changeCount = 2 /\ _change_count = 2

\* C32: the keys of the registry only grow: no step of any handler (gathering
\* finished, updated, pause and resume, a settings change, a run of
\* clipboard_watcher, a Services call, the answer to an alert) takes a key
\* out of _screenshots.
C32_RegistryKeysOnlyGrow ==
    [][DOMAIN _screenshots \subseteq DOMAIN _screenshots']_vars

\* the registry holds a key from the gathering and a key added later, and a
\* Services call has just processed a file
C32_Witness ==
    /\ ev.op = "image" /\ ev.src = "service"
    /\ \E a, b \in DOMAIN _screenshots :
          /\ _screenshots[a] = PyTrue
          /\ _screenshots[b] = SKIPPED

\* C33: screenshots are processed in the order in which the updated
\* notifications are delivered: a notification is delivered only when the one
\* before it has been handled to its end (no item left, no alert open), so the
\* recognition and the copy for its items are over before the recognition for
\* an item of the next one starts; within a notification the items are taken
\* from the front, and the recognition of an item starts only when the item
\* before it has been copied, refused or passed over.
C33_ProcessedInDeliveryOrder ==
    [][/\ ev'.op = "update"
          => /\ pc = "idle" /\ handler = "none"
             /\ todo = <<>> /\ cur = NoCur
       /\ (ev'.src = "screenshot" /\ ev'.recognized)
          => /\ pc = "loop" /\ handler = "process_screenshot"
             /\ cur = NoCur
             /\ ev'.id = HeadId
             /\ todo' \in {Tail(todo), <<>>}
       /\ (pc = "alert" /\ ev'.op # "external")
          => /\ ev'.op \in {"yes", "no"}
             /\ ev'.id = cur.id
             /\ todo' = todo
       /\ (pc = "loop" /\ ev'.op # "external")
          => /\ ev'.src = "screenshot" /\ ev'.id = HeadId
             /\ todo' \in {Tail(todo), <<>>}]_vars

\* a notification with two new files has been handled with confirmation on:
\* the first was copied after its alert and the second is at its alert
C33_Witness ==
    /\ pc = "alert" /\ cur.src = "screenshot" /\ cur.id = 2
    /\ todo = <<>>
    /\ 1 \in DOMAIN _screenshots /\ _screenshots[1].tag = "str"
    /\ _screenshots[1].s # <<>> /\ _screenshots[1] # SKIPPED
    /\ recognized = {1, 2}

\* the confidence items that are checked
CheckedConfidence(m) == {i \in ConfidenceItems : m[i]}

\* the level each confidence item stands for
ConfidenceOfItem ==
    [confidence_low |-> "LOW", confidence_medium |-> "MEDIUM",
     confidence_high |-> "HIGH"]

\* the texts of a list of fragments, joined
TextOf(frags) == Join([i \in DOMAIN frags |-> frags[i].text])

\* C34: when load_config has come to its end exactly one of Low, Medium and
\* High is checked: the level the file names, LOW when the file names none;
\* a selection in the confidence menu leaves exactly the selected item
\* checked and no other handler touches the three items; and a detection
\* filters with the number of the item that is checked then, which is the
\* level selected last.
C34_ThresholdIsSelectedLevel ==
    [][/\ (pc = "init" /\ pc' = "idle")
          => \E i \in ConfidenceItems :
                /\ CheckedConfidence(menu') = {i}
                /\ ConfidenceOfItem[i]
                      = IF plist.kind = "dict" /\ "confidence" \in plist.keys
                        THEN plist.value.confidence ELSE "LOW"
       /\ pc = "idle"
          => /\ \A sender \in ConfidenceItems :
                   on_confidence(sender)
                   => /\ CheckedConfidence(menu') = {sender}
                      /\ ev'.op = "menu" /\ ev'.src = sender
             /\ ev'.src \notin ConfidenceItems
                => CheckedConfidence(menu') = CheckedConfidence(menu)
       /\ pc \in {"loop", "alert"}
          => CheckedConfidence(menu') = CheckedConfidence(menu)
       /\ (frame.at = "languages" /\ frame'.at = "text")
          => \E i \in ConfidenceItems :
                /\ CheckedConfidence(menu) = {i}
                /\ ev.src \in ConfidenceItems => ev.src = i
                /\ frame'.text
                      = TextOf(Surviving(frame'.detected_text,
                                         CONFIDENCE[ConfidenceOfItem[i]]))]_vars

\* Medium was selected last, and the detection that followed has kept the
\* fragment at 50 and dropped the one at 30
C34_Witness ==
    /\ frame.at = "text"
    /\ ev.op = "menu" /\ ev.src = "confidence_medium"
    /\ frame.detected_text = <<[text |-> <<"a">>, conf |-> 30],
                               [text |-> <<"b">>, conf |-> 50]>>
    /\ frame.text = <<"b">>

\* the last step was a write of the application to the pasteboard: a text
\* copied by process_image, or the Clear Clipboard command
OwnWrite(e) == e.wrote \/ e.op = "clear"

\* C35: a write of the application to the pasteboard (process_image copies a
\* text for a screenshot, a clipboard image or a Services file; the pasteboard
\* is cleared) leaves the recorded change count equal to the count of the
\* pasteboard, so has_changed is false after it; a run of clipboard_watcher
\* that follows with no write of another process in between does nothing, and
\* the watcher never processes what the application has written itself.
C35_OwnWritesNotSeenAsChange ==
    [][/\ OwnWrite(ev')
          => /\ _change_count' = pb'.changeCount
             /\ ~has_changed(pb', _change_count')
             /\ ~has_image(pb')
       /\ (OwnWrite(ev) /\ pc = "idle" /\ ClipboardTick)
          => /\ ev'.op = "tick" /\ ev'.src = "none"
             /\ ~ev'.recognized /\ ~ev'.asked /\ ~ev'.wrote
             /\ pb' = pb /\ _change_count' = _change_count
             /\ pc' = "idle"]_vars

\* the watcher has copied the text of a clipboard image and has run again
\* with the text still on the pasteboard
C35_Witness ==
    /\ ev.op = "tick" /\ ev.src = "none"
    /\ menu.detect_clipboard /\ ~_paused
    /\ pb.has_string /\ pb.string = <<"a">> /\ ~pb.has_image
    /\ pb.changeCount = 2 /\ _change_count = 2
    /\ _screenshots = <<>>

\* C36: a run of clipboard_watcher that finds a new image while the
\* application is paused (the watcher on) records the change count of the
\* pasteboard, so the image is used up by the run that skips it: as long as
\* the pasteboard stays as it is, the recorded count stays equal to the one
\* of the pasteboard and no run processes the image, also after the
\* application has been resumed.
C36_PausedImageIsConsumed ==
    [][/\ (/\ pc = "idle" /\ menu.detect_clipboard /\ _paused
           /\ has_image(pb) /\ pb.changeCount # _change_count
           /\ ClipboardTick)
          => /\ ev'.op = "tick" /\ ev'.src = "clipboard"
             /\ pb' = pb
             /\ _change_count' = pb.changeCount
       /\ (pb.changeCount = _change_count /\ pb' = pb)
          => /\ _change_count' = _change_count
             /\ ~ev'.recognized /\ ~ev'.loaded
             /\ ev'.op \notin {"image", "nodata"}]_vars

\* the run that skips the first image on the pasteboard has just used it up
C36_Witness ==
    /\ ev.op = "tick" /\ ev.src = "clipboard"
    /\ _paused /\ menu.detect_clipboard
    /\ pb.has_image
    /\ pb.changeCount = 1 /\ _change_count = 1

\* C37: a run of clipboard_watcher with the watcher off leaves the recorded
\* change count as it is, and while the pasteboard stays as it is only a run
\* with the watcher on changes the recorded count; so an image that another
\* process has put on the pasteboard in that time keeps a count that differs
\* from the recorded one, and the first run with the watcher on again (the
\* application not paused) goes to process_clipboard_image.
C37_OffTicksDoNotConsume ==
    [][/\ (pc = "idle" /\ ~menu.detect_clipboard /\ ClipboardTick)
          => /\ ev'.op = "tick"
             /\ _change_count' = _change_count
       /\ (ev'.op = "external" /\ has_image(pb'))
          => pb'.changeCount # _change_count'
       /\ (pb' = pb /\ _change_count' # _change_count)
          => /\ menu.detect_clipboard
             /\ ev'.op \in {"tick", "nodata", "image"}
       /\ (/\ pc = "idle" /\ menu.detect_clipboard /\ ~_paused
           /\ has_image(pb) /\ pb.changeCount # _change_count
           /\ ClipboardTick)
          => /\ ev'.op \in {"nodata", "image"}
             /\ ev'.op = "image" => ev'.src = "clipboard" /\ ev'.recognized
             /\ _change_count' >= pb.changeCount]_vars

\* two writes of other processes, the last one an image, have not been
\* recorded, and a menu command has just left the watcher on
C37_Witness ==
    /\ ev.op = "menu"
    /\ menu.detect_clipboard /\ ~_paused
    /\ pb.has_image
    /\ pb.changeCount = 2 /\ _change_count = 0

\* how many newlines a text holds
Newlines(text) == Len(SelectSeq(text, LAMBDA c : c = NL))

\* C38: with "Keep linebreaks" off and "Append to clipboard" on, only the new
\* text has its newlines replaced by spaces: the value handed to
\* Pasteboard.copy starts with the old text of the pasteboard as it is, its
\* newlines kept, then one newline, then the new text without any newline;
\* so it holds a newline whenever the old text is not empty, and it is the new
\* text alone when the old text is empty.
C38_ReplacementOnlyInNewText ==
    (frame.at = "clipboard_text" /\ menu.append /\ ~menu.linebreaks)
    => LET old == get_text(pb)
       IN  /\ Newlines(frame.text) = 0
           /\ old = <<>> => frame.clipboard_text = frame.text
           /\ old # <<>>
              => /\ Len(frame.clipboard_text) = Len(old) + 1 + Len(frame.text)
                 /\ SubSeq(frame.clipboard_text, 1, Len(old)) = old
                 /\ frame.clipboard_text[Len(old) + 1] = NL
                 /\ SubSeq(frame.clipboard_text, Len(old) + 2,
                           Len(frame.clipboard_text)) = frame.text
                 /\ Newlines(frame.clipboard_text) = Newlines(old) + 1
                 /\ Newlines(frame.clipboard_text) > 0

\* a text of two lines was on the pasteboard and two fragments were detected
C38_Witness ==
    /\ frame.at = "clipboard_text" /\ menu.append /\ ~menu.linebreaks
    /\ pb.string = <<"x", NL, "y">>
    /\ frame.text = <<"a", SP, "b">>
    /\ frame.clipboard_text = <<"x", NL, "y", NL, "a", SP, "b">>

\* C39: with confirmation on, the text that Yes copies is worked out before
\* the alert is shown, in append mode from the text the pasteboard holds at
\* that moment; a write of another process while the alert is open leaves
\* that text as it is, and Yes copies it whatever the pasteboard holds by
\* then, so the text the other process has written is overwritten and is
\* not part of the result.
C39_YesCommitsStaleText ==
    [][/\ ev'.asked
          => /\ pc' = "alert" /\ pb' = pb
             /\ cur'.clipboard_text
                   = IF menu.append /\ get_text(pb) # <<>>
                     THEN get_text(pb) \o <<NL>> \o cur'.text
                     ELSE cur'.text
       /\ (pc = "alert" /\ ev'.op = "external")
          => /\ pc' = "alert" /\ cur' = cur
             /\ pb' # pb
       /\ (pc = "alert" /\ ev'.op = "yes")
          => /\ ev'.wrote
             /\ pb'.has_string /\ pb'.string = cur.clipboard_text]_vars

\* append mode: the alert was shown while the pasteboard held no text,
\* another process has put a text on the pasteboard (its first write), and
\* Yes has copied the new text alone (the second write)
C39_Witness ==
    /\ ev.op = "yes" /\ ev.src = "screenshot" /\ ev.wrote
    /\ menu.append /\ menu.confirmation
    /\ pb.string = <<"a">>
    /\ pb.changeCount = 2

\* another process has just put an image on the pasteboard while a handler of
\* the application is between two of its pasteboard calls
LandedInWindow ==
    /\ pc \in {"set_text", "clear", "has_changed"}
    /\ ev.op = "external"
    /\ has_image(pb)

\* once the recorded count is the count of the pasteboard, no run of the
\* watcher reports a change or processes the image as long as the pasteboard
\* stays as it is
QuietWhileUnchanged ==
    (pc = "idle" /\ pb.changeCount = _change_count /\ pb' = pb)
    => /\ _change_count' = _change_count
       /\ pc' # "has_changed"
       /\ ev'.op \notin {"compare", "nodata"}
       /\ ~(ev'.src = "clipboard" /\ ev'.recognized)

\* C40 (as claimed): an image that another process writes between the write
\* of set_text or clear and the changeCount() that follows it, or between the
\* two changeCount() calls of has_changed, is absorbed and never processed:
\* the count recorded next is the one of the pasteboard with the image, the
\* step that records it does not process the image, and no later run of the
\* watcher does.
C40_AbsorbedNeverProcessed ==
    [][/\ (LandedInWindow /\ ev'.op # "external")
          => /\ _change_count' = pb.changeCount
             /\ pb' = pb
             /\ ~ev'.loaded /\ ~ev'.recognized
       /\ QuietWhileUnchanged]_vars

\* C40 (amended): such an image is absorbed in all three places (the count
\* recorded next is the one of the pasteboard with the image, so no later run
\* of the watcher reports it).  In set_text and in clear it is never
\* processed.  In has_changed the run that is under way goes on to has_image
\* and, unless the application is paused, to process_clipboard_image with
\* that image.
C40_AbsorbedByRefresh ==
    [][/\ (LandedInWindow /\ ev'.op # "external")
          => /\ _change_count' = pb.changeCount
             /\ pc \in {"set_text", "clear"}
                => /\ pb' = pb
                   /\ pc' = "idle"
                   /\ ev'.op \in {"refresh", "clear"}
                   /\ ~ev'.recognized
             /\ (pc = "has_changed" /\ _paused)
                => /\ pb' = pb
                   /\ pc' = "idle"
                   /\ ev'.op = "tick" /\ ev'.src = "clipboard"
             /\ (pc = "has_changed" /\ ~_paused)
                => /\ ev'.op \in {"nodata", "image"}
                   /\ ev'.op = "image"
                      => ev'.src = "clipboard" /\ ev'.recognized
       /\ QuietWhileUnchanged]_vars

\* set_text has ended, and the pasteboard holds an image in place of the text
\* it wrote: the image came between its write and its changeCount(), and the
\* recorded count is the one of the pasteboard with the image
C40_Witness ==
    /\ pc = "idle"
    /\ ev.op = "refresh"
    /\ has_image(pb) /\ ~has_text(pb)
    /\ menu.detect_clipboard /\ ~_paused
    /\ pb.changeCount = _change_count

====
